---- MODULE Spec2Model ----
(***************************************************************************)
(* EcoScan AI: the impact classifier (scoring.py), the disposal resolver   *)
(* (disposal.py), the FastAPI backend (main.py), the desktop application   *)
(* (desktop_app.py) and the SQLite scan store (database.py).               *)
(*                                                                         *)
(* Text is modelled with TLA+ strings and the operators Len, \o and SubSeq *)
(* on them, so substring tests, lower-casing, title-casing, joining and    *)
(* stripping are computed character by character as Python computes them.  *)
(* Floating point CO2 values are kept in tenths of a kilogram.             *)
(***************************************************************************)
EXTENDS Integers, Sequences, FiniteSets, TLC

VARIABLES
    product,        \* Open Food Facts payload handed to score_product
    impact,         \* what score_product returned for it
    tier_arg,       \* argument of estimate_co2
    co2,            \* what estimate_co2 returned for it
    city_arg,       \* city argument of get_disposal_instruction
    packaging_arg,  \* packaging_text argument of get_disposal_instruction
    disposal,       \* what get_disposal_instruction returned
    scans,          \* rows of the scans table, in insertion order
    now,            \* index of the current instant in Timeline
    response,       \* answer to the last API request
    latest_result,  \* EcoScanDesktopApp.latest_result
    workers,        \* desktop worker threads started and not yet run
    ui_queue,       \* callbacks queued with after(0, ...) for the Tk main loop
    scan_status,    \* text of the desktop scan_status label
    report_file,    \* rows of the CSV file the desktop export wrote last
    name_arg,       \* product_name argument of suggest_alternative
    alternative,    \* what suggest_alternative returned
    build_arg,      \* barcode, city and lookup outcome of one analysis
    api_built,      \* what build_product_result did with build_arg
    desktop_built,  \* what the desktop worker did with build_arg
    requested,      \* analyses the desktop Analyze button started, oldest first
    latest_analysis,\* st.session_state.latest_analysis of the web frontend
    handlers,       \* POST /scan handlers running in the server's thread pool
    camera          \* the call of scan_barcode_from_webcam in progress

vars == <<product, impact, tier_arg, co2, city_arg, packaging_arg, disposal,
          scans, now, response, latest_result, workers, ui_queue,
          scan_status, report_file, name_arg, alternative, build_arg,
          api_built, desktop_built, requested, latest_analysis, handlers,
          camera>>

storeVars == <<scans, now, response, latest_result, workers, ui_queue,
               scan_status, report_file>>
desktopVars == <<latest_result, workers, ui_queue, scan_status, report_file>>

scoreVars == <<product, impact, tier_arg, co2>>
disposalVars == <<city_arg, packaging_arg, disposal>>
suggestVars == <<name_arg, alternative>>
buildVars == <<build_arg, api_built, desktop_built>>
clientVars == <<requested, latest_analysis, handlers, camera>>

(***************************************************************************)
(* Python values.  A payload field is absent/None, a str, an int or a list *)
(* of str.                                                                 *)
(***************************************************************************)
None == [t |-> "None"]
Str(s) == [t |-> "str", v |-> s]
Int_(n) == [t |-> "int", v |-> n]
List(l) == [t |-> "list", v |-> l]

\* the operation has not been called yet
NotCalled == [t |-> "NotCalled"]

\* Python truthiness of a payload value
Truthy(x) ==
    CASE x.t = "None" -> FALSE
      [] x.t = "str"  -> x.v # ""
      [] x.t = "int"  -> x.v # 0
      [] x.t = "list" -> x.v # <<>>

\* x or d
PyOr(x, d) == IF Truthy(x) THEN x ELSE d

(***************************************************************************)
(* Python string operations.                                               *)
(***************************************************************************)
DIGITS == "0123456789"

Ch(s, i) == SubSeq(s, i, i)

\* the lower-case and the upper-case form of each cased character
LowerOf ==
    ("A" :> "a") @@ ("B" :> "b") @@ ("C" :> "c") @@ ("D" :> "d")
    @@ ("E" :> "e") @@ ("F" :> "f") @@ ("G" :> "g") @@ ("H" :> "h")
    @@ ("I" :> "i") @@ ("J" :> "j") @@ ("K" :> "k") @@ ("L" :> "l")
    @@ ("M" :> "m") @@ ("N" :> "n") @@ ("O" :> "o") @@ ("P" :> "p")
    @@ ("Q" :> "q") @@ ("R" :> "r") @@ ("S" :> "s") @@ ("T" :> "t")
    @@ ("U" :> "u") @@ ("V" :> "v") @@ ("W" :> "w") @@ ("X" :> "x")
    @@ ("Y" :> "y") @@ ("Z" :> "z")

UpperOf ==
    ("a" :> "A") @@ ("b" :> "B") @@ ("c" :> "C") @@ ("d" :> "D")
    @@ ("e" :> "E") @@ ("f" :> "F") @@ ("g" :> "G") @@ ("h" :> "H")
    @@ ("i" :> "I") @@ ("j" :> "J") @@ ("k" :> "K") @@ ("l" :> "L")
    @@ ("m" :> "M") @@ ("n" :> "N") @@ ("o" :> "O") @@ ("p" :> "P")
    @@ ("q" :> "Q") @@ ("r" :> "R") @@ ("s" :> "S") @@ ("t" :> "T")
    @@ ("u" :> "U") @@ ("v" :> "V") @@ ("w" :> "W") @@ ("x" :> "X")
    @@ ("y" :> "Y") @@ ("z" :> "Z")

IsCased(c) == c \in DOMAIN LowerOf \/ c \in DOMAIN UpperOf

LowerChar(c) == IF c \in DOMAIN LowerOf THEN LowerOf[c] ELSE c

UpperChar(c) == IF c \in DOMAIN UpperOf THEN UpperOf[c] ELSE c

RECURSIVE LowerFrom(_, _)
LowerFrom(s, i) ==
    IF i > Len(s) THEN "" ELSE LowerChar(Ch(s, i)) \o LowerFrom(s, i + 1)

\* str.lower()
lower(s) == LowerFrom(s, 1)

RECURSIVE TitleFrom(_, _, _)
TitleFrom(s, i, prevCased) ==
    IF i > Len(s) THEN ""
    ELSE LET c == Ch(s, i)
         IN  (IF prevCased THEN LowerChar(c) ELSE UpperChar(c))
               \o TitleFrom(s, i + 1, IsCased(c))

\* str.capitalize() in the place of str.title()
title_capitalize(s) ==
    IF s = "" THEN ""
    ELSE UpperChar(Ch(s, 1)) \o LowerFrom(s, 2)

\* str.title(): a cased character is upper-cased after an uncased one and
\* lower-cased after a cased one
title(s) == TitleFrom(s, 1, FALSE)

\* needle in hay
Contains(hay, needle) ==
    \E i \in 1..(Len(hay) - Len(needle) + 1) :
        SubSeq(hay, i, i + Len(needle) - 1) = needle

\* str.isspace() of a character
IsSpace(c) == c \in {" ", "\t", "\n", "\r", "\f"}

RECURSIVE LStrip(_)
LStrip(s) ==
    IF s # "" /\ IsSpace(Ch(s, 1)) THEN LStrip(SubSeq(s, 2, Len(s))) ELSE s

RECURSIVE RStrip(_)
RStrip(s) ==
    IF s # "" /\ IsSpace(Ch(s, Len(s)))
    THEN RStrip(SubSeq(s, 1, Len(s) - 1))
    ELSE s

\* str.strip()
strip(s) == RStrip(LStrip(s))

RECURSIVE JoinFrom(_, _)
JoinFrom(values, i) ==
    IF i > Len(values) THEN ""
    ELSE IF i = Len(values) THEN values[i]
    ELSE values[i] \o " " \o JoinFrom(values, i + 1)

\* " ".join(values)
join(values) == JoinFrom(values, 1)

\* str(x) of a str or of a one-digit int
str(x) == IF x.t = "int" THEN Ch(DIGITS, x.v + 1) ELSE x.v

(***************************************************************************)
(* scoring.py                                                              *)
(***************************************************************************)
IMPACT_TO_CO2 == [Red |-> 50, Yellow |-> 25, Green |-> 8]
\* IMPACT_TO_LABEL with the labels of Red and Green exchanged
IMPACT_TO_LABEL_exchanged ==
    [Red |-> "Low Impact", Yellow |-> "Medium Impact", Green |-> "High Impact"]

IMPACT_TO_LABEL ==
    [Red |-> "High Impact", Yellow |-> "Medium Impact", Green |-> "Low Impact"]

_normalize_text(values) == lower(join(values))

\* the locals of score_product
category_blob_of(product_data) ==
    _normalize_text(PyOr(product_data.categories_tags, List(<<>>)).v)

label_blob_of(product_data) ==
    _normalize_text(PyOr(product_data.labels_tags, List(<<>>)).v)

packaging_blob_of(product_data) ==
    _normalize_text(PyOr(product_data.packaging_tags, List(<<>>)).v)

nova_group_of(product_data) ==
    strip(str(PyOr(product_data.nova_group, Str(""))))

combined_of(product_data) ==
    LET product_name == lower(PyOr(product_data.product_name, Str("")).v)
        ingredients == lower(PyOr(product_data.ingredients_text, Str("")).v)
    IN  join(<<category_blob_of(product_data), label_blob_of(product_data),
               packaging_blob_of(product_data), product_name, ingredients>>)

\* score_product with the ultra-processed rule tried before the meat rule
score_product_processed_first(product_data) ==
    LET nova_group == nova_group_of(product_data)
        category_blob == category_blob_of(product_data)
        packaging_blob == packaging_blob_of(product_data)
        combined == combined_of(product_data)
    IN  IF nova_group = "4" \/ Contains(category_blob, "packaged-foods")
        THEN [score |-> "Yellow",
              reason |-> "Likely ultra-processed packaged food."]
        ELSE IF Contains(combined, "beef") \/ Contains(combined, "meat")
        THEN [score |-> "Red",
              reason |-> "Category indicates meat-heavy product (higher footprint)."]
        ELSE IF \E term \in {"plant", "vegan", "vegetarian", "plant-based"} :
                    Contains(combined, term)
        THEN [score |-> "Green", reason |-> "Plant-based indicators found."]
        ELSE IF \E term \in {"bulk", "recyclable", "paper"} :
                    Contains(packaging_blob, term)
        THEN [score |-> "Green",
              reason |-> "Lower-impact packaging indicators found."]
        ELSE [score |-> "Yellow",
              reason |-> "Insufficient certainty; assigned medium impact."]

\* score_product with the plant-based rule tried before the ultra-processed rule
score_product_plant_first(product_data) ==
    LET nova_group == nova_group_of(product_data)
        category_blob == category_blob_of(product_data)
        packaging_blob == packaging_blob_of(product_data)
        combined == combined_of(product_data)
    IN  IF Contains(combined, "beef") \/ Contains(combined, "meat")
        THEN [score |-> "Red",
              reason |-> "Category indicates meat-heavy product (higher footprint)."]
        ELSE IF \E term \in {"plant", "vegan", "vegetarian", "plant-based"} :
                    Contains(combined, term)
        THEN [score |-> "Green", reason |-> "Plant-based indicators found."]
        ELSE IF nova_group = "4" \/ Contains(category_blob, "packaged-foods")
        THEN [score |-> "Yellow",
              reason |-> "Likely ultra-processed packaged food."]
        ELSE IF \E term \in {"bulk", "recyclable", "paper"} :
                    Contains(packaging_blob, term)
        THEN [score |-> "Green",
              reason |-> "Lower-impact packaging indicators found."]
        ELSE [score |-> "Yellow",
              reason |-> "Insufficient certainty; assigned medium impact."]

\* score_product with a default of Green
score_product_default_green(product_data) ==
    LET nova_group == nova_group_of(product_data)
        category_blob == category_blob_of(product_data)
        packaging_blob == packaging_blob_of(product_data)
        combined == combined_of(product_data)
    IN  IF Contains(combined, "beef") \/ Contains(combined, "meat")
        THEN [score |-> "Red",
              reason |-> "Category indicates meat-heavy product (higher footprint)."]
        ELSE IF nova_group = "4" \/ Contains(category_blob, "packaged-foods")
        THEN [score |-> "Yellow",
              reason |-> "Likely ultra-processed packaged food."]
        ELSE IF \E term \in {"plant", "vegan", "vegetarian", "plant-based"} :
                    Contains(combined, term)
        THEN [score |-> "Green", reason |-> "Plant-based indicators found."]
        ELSE IF \E term \in {"bulk", "recyclable", "paper"} :
                    Contains(packaging_blob, term)
        THEN [score |-> "Green",
              reason |-> "Lower-impact packaging indicators found."]
        ELSE [score |-> "Green",
              reason |-> "Insufficient certainty; assigned medium impact."]

\* score_product whose packaging rule does not know "paper"
score_product_no_paper(product_data) ==
    LET nova_group == nova_group_of(product_data)
        category_blob == category_blob_of(product_data)
        packaging_blob == packaging_blob_of(product_data)
        combined == combined_of(product_data)
    IN  IF Contains(combined, "beef") \/ Contains(combined, "meat")
        THEN [score |-> "Red",
              reason |-> "Category indicates meat-heavy product (higher footprint)."]
        ELSE IF nova_group = "4" \/ Contains(category_blob, "packaged-foods")
        THEN [score |-> "Yellow",
              reason |-> "Likely ultra-processed packaged food."]
        ELSE IF \E term \in {"plant", "vegan", "vegetarian", "plant-based"} :
                    Contains(combined, term)
        THEN [score |-> "Green", reason |-> "Plant-based indicators found."]
        ELSE IF \E term \in {"bulk", "recyclable"} :
                    Contains(packaging_blob, term)
        THEN [score |-> "Green",
              reason |-> "Lower-impact packaging indicators found."]
        ELSE [score |-> "Yellow",
              reason |-> "Insufficient certainty; assigned medium impact."]

score_product(product_data) ==
    LET nova_group == nova_group_of(product_data)
        category_blob == category_blob_of(product_data)
        packaging_blob == packaging_blob_of(product_data)
        combined == combined_of(product_data)
    IN  IF Contains(combined, "beef") \/ Contains(combined, "meat")
        THEN [score |-> "Red",
              reason |-> "Category indicates meat-heavy product (higher footprint)."]
        ELSE IF nova_group = "4" \/ Contains(category_blob, "packaged-foods")
        THEN [score |-> "Yellow",
              reason |-> "Likely ultra-processed packaged food."]
        ELSE IF \E term \in {"plant", "vegan", "vegetarian", "plant-based"} :
                    Contains(combined, term)
        THEN [score |-> "Green", reason |-> "Plant-based indicators found."]
        ELSE IF \E term \in {"bulk", "recyclable", "paper"} :
                    Contains(packaging_blob, term)
        THEN [score |-> "Green",
              reason |-> "Lower-impact packaging indicators found."]
        ELSE [score |-> "Yellow",
              reason |-> "Insufficient certainty; assigned medium impact."]

\* estimate_co2 with a default of 0.0
estimate_co2_default_zero(impact_score) ==
    IF impact_score \in DOMAIN IMPACT_TO_CO2
    THEN IMPACT_TO_CO2[impact_score]
    ELSE 0

estimate_co2(impact_score) ==
    IF impact_score \in DOMAIN IMPACT_TO_CO2
    THEN IMPACT_TO_CO2[impact_score]
    ELSE 25

\* suggest_alternative without the "this product" default
suggest_alternative_no_default(impact_score, product_name) ==
    LET name == strip(product_name)
    IN  IF impact_score = "Red"
        THEN "Try a plant-based version of " \o name
                \o " and choose minimal packaging."
        ELSE IF impact_score = "Yellow"
        THEN "Consider a less-processed or refill/bulk alternative to "
                \o name \o "."
        ELSE name
                \o " is a lower-impact choice. Prioritize local sourcing when possible."

suggest_alternative(impact_score, product_name) ==
    LET name == IF strip(product_name) # "" THEN strip(product_name)
                ELSE "this product"
    IN  IF impact_score = "Red"
        THEN "Try a plant-based version of " \o name
                \o " and choose minimal packaging."
        ELSE IF impact_score = "Yellow"
        THEN "Consider a less-processed or refill/bulk alternative to "
                \o name \o "."
        ELSE name
                \o " is a lower-impact choice. Prioritize local sourcing when possible."

(***************************************************************************)
(* disposal.py                                                             *)
(***************************************************************************)
SUPPORTED_CITIES == <<"San Francisco", "Chicago">>

\* city in SUPPORTED_CITIES
IsSupportedCity(city) ==
    \E i \in DOMAIN SUPPORTED_CITIES : SUPPORTED_CITIES[i] = city

\* the table with rules for a city that is not in SUPPORTED_CITIES
CITY_DISPOSAL_RULES_with_nowhere ==
    ("San Francisco" :>
        (("plastic bottle" :> "Recycle")
            @@ ("glass bottle" :> "Recycle")
            @@ ("greasy cardboard" :> "Trash")))
    @@ ("Chicago" :>
        (("plastic bottle" :> "Recycle")
            @@ ("glass bottle" :> "Recycle")
            @@ ("greasy cardboard" :> "Trash")))
    @@ ("Nowhere" :>
        (("plastic bottle" :> "Recycle")
            @@ ("glass bottle" :> "Recycle")
            @@ ("greasy cardboard" :> "Trash")))

\* the table with Chicago recycling greasy cardboard
CITY_DISPOSAL_RULES_chicago_differs ==
    ("San Francisco" :>
        (("plastic bottle" :> "Recycle")
            @@ ("glass bottle" :> "Recycle")
            @@ ("greasy cardboard" :> "Trash")))
    @@ ("Chicago" :>
        (("plastic bottle" :> "Recycle")
            @@ ("glass bottle" :> "Recycle")
            @@ ("greasy cardboard" :> "Recycle")))

CITY_DISPOSAL_RULES ==
    ("San Francisco" :>
        (("plastic bottle" :> "Recycle")
            @@ ("glass bottle" :> "Recycle")
            @@ ("greasy cardboard" :> "Trash")))
    @@ ("Chicago" :>
        (("plastic bottle" :> "Recycle")
            @@ ("glass bottle" :> "Recycle")
            @@ ("greasy cardboard" :> "Trash")))

\* detect_material trying the glass bottle first
detect_material_glass_first(packaging_text) ==
    LET text == lower(packaging_text)
    IN  IF Contains(text, "glass bottle") THEN "glass bottle"
        ELSE IF Contains(text, "plastic bottle") THEN "plastic bottle"
        ELSE IF Contains(text, "greasy cardboard") THEN "greasy cardboard"
        ELSE "unknown"

detect_material(packaging_text) ==
    LET text == lower(packaging_text)
    IN  IF Contains(text, "plastic bottle") THEN "plastic bottle"
        ELSE IF Contains(text, "glass bottle") THEN "glass bottle"
        ELSE IF Contains(text, "greasy cardboard") THEN "greasy cardboard"
        ELSE "unknown"

get_disposal_instruction(city, packaging_text) ==
    LET material == detect_material(PyOr(packaging_text, Str("")).v)
        city_rules ==
            IF city \in DOMAIN CITY_DISPOSAL_RULES
            THEN CITY_DISPOSAL_RULES[city]
            ELSE [m \in {} |-> ""]
        disposal_type ==
            IF material \in DOMAIN city_rules
            THEN city_rules[material]
            ELSE "Check Local Guidelines"
        icon ==
            IF disposal_type = "Recycle" THEN "recycle-icon"
            ELSE IF disposal_type = "Trash" THEN "trash-icon"
            ELSE "info-icon"
        detail ==
            IF material # "unknown"
            THEN title(material) \o " -> " \o disposal_type
            ELSE "Material unclear. Follow local sorting guidelines."
    IN  [t |-> "decision",
         city |-> city,
         material |-> material,
         disposal_type |-> disposal_type,
         icon |-> icon,
         detail |-> detail]

(***************************************************************************)
(* main.py: packaging text handed to the disposal resolver                 *)
(***************************************************************************)
_build_packaging_text(p) ==
    LET tags == PyOr(p.packaging_tags, List(<<>>)).v
        packaging_raw == PyOr(p.packaging, Str("")).v
    IN  strip(join(tags \o <<packaging_raw>>))

(***************************************************************************)
(* database.py.  A timestamp is an instant of Timeline, [year, month, day, *)
(* second]; CURRENT_TIMESTAMP is the instant the clock stands at.          *)
(***************************************************************************)
Timeline ==
    <<[year |-> 2024, month |-> 12, day |-> 31, second |-> 86398],
      [year |-> 2024, month |-> 12, day |-> 31, second |-> 86399],
      [year |-> 2025, month |-> 1, day |-> 1, second |-> 0],
      [year |-> 2025, month |-> 1, day |-> 1, second |-> 1]>>

CURRENT_TIMESTAMP == Timeline[now]

\* init_db creating the table anew
init_db_recreate(rows) == <<>>

\* CREATE TABLE IF NOT EXISTS keeps the rows of an existing scans table, and
\* the migration adds no column to a table that has co2_estimate
init_db(rows) == rows

RECURSIVE MaxId(_, _)
MaxId(rows, i) ==
    IF i > Len(rows) THEN 0
    ELSE LET rest == MaxId(rows, i + 1)
         IN  IF rows[i].id > rest THEN rows[i].id ELSE rest

\* the rowid SQLite assigns to the next row of an INTEGER PRIMARY KEY table
lastrowid(rows) == MaxId(rows, 1) + 1

\* insert_scan binding barcode and city to each other's column
insert_scan_swapped(rows, product_name, barcode, city, impact_score, disposal_type, co2_estimate) ==
    Append(rows,
           [id |-> lastrowid(rows),
            product_name |-> product_name,
            barcode |-> city,
            city |-> barcode,
            impact_score |-> impact_score,
            disposal_type |-> disposal_type,
            co2_estimate |-> co2_estimate,
            timestamp |-> CURRENT_TIMESTAMP])

\* the table after INSERT INTO scans (...) VALUES (...)
insert_scan(rows, product_name, barcode, city, impact_score, disposal_type, co2_estimate) ==
    Append(rows,
           [id |-> lastrowid(rows),
            product_name |-> product_name,
            barcode |-> barcode,
            city |-> city,
            impact_score |-> impact_score,
            disposal_type |-> disposal_type,
            co2_estimate |-> co2_estimate,
            timestamp |-> CURRENT_TIMESTAMP])

\* get_scan_by_id reading the newest row instead of the row with the id
get_scan_by_id_newest(rows, scan_id) ==
    IF rows = <<>> THEN None ELSE rows[Len(rows)]

get_scan_by_id(rows, scan_id) ==
    IF \E i \in DOMAIN rows : rows[i].id = scan_id
    THEN rows[CHOOSE i \in DOMAIN rows : rows[i].id = scan_id]
    ELSE None

\* timestamp order of two instants
Instant(ts) == <<ts.year, ts.month, ts.day, ts.second>>

RECURSIVE TupleLess(_, _, _)
TupleLess(a, b, i) ==
    IF i > Len(a) THEN FALSE
    ELSE IF a[i] # b[i] THEN a[i] < b[i]
    ELSE TupleLess(a, b, i + 1)

Before(a, b) == TupleLess(a, b, 1)

\* ORDER BY timestamp DESC, id ASC
Newer_oldest_id_first(r1, r2) ==
    \/ Before(Instant(r2.timestamp), Instant(r1.timestamp))
    \/ r1.timestamp = r2.timestamp /\ r1.id < r2.id

\* ORDER BY timestamp DESC, id DESC
Newer(r1, r2) ==
    \/ Before(Instant(r2.timestamp), Instant(r1.timestamp))
    \/ r1.timestamp = r2.timestamp /\ r1.id > r2.id

RECURSIVE SortNewestFirst(_)
SortNewestFirst(rowset) ==
    IF rowset = {} THEN <<>>
    ELSE LET first == CHOOSE r \in rowset : \A o \in rowset \ {r} : Newer(r, o)
         IN  <<first>> \o SortNewestFirst(rowset \ {first})

Rows(rows) == {rows[i] : i \in DOMAIN rows}

get_scan_history(rows, limit) ==
    LET sorted == SortNewestFirst(Rows(rows))
    IN  SubSeq(sorted, 1, IF limit < Len(sorted) THEN limit ELSE Len(sorted))

get_total_scans(rows) == Len(rows)

RECURSIVE SumCo2(_, _)
SumCo2(rows, i) ==
    IF i > Len(rows) THEN 0 ELSE rows[i].co2_estimate + SumCo2(rows, i + 1)

get_total_co2(rows) == SumCo2(rows, 1)

get_impact_distribution(rows) ==
    [score \in {rows[i].impact_score : i \in DOMAIN rows} |->
        Cardinality({i \in DOMAIN rows : rows[i].impact_score = score})]

RECURSIVE SelectInOrder(_, _, _, _)
SelectInOrder(rows, start, next_month, i) ==
    IF i > Len(rows) THEN <<>>
    ELSE (IF /\ ~Before(Instant(rows[i].timestamp), start)
             /\ Before(Instant(rows[i].timestamp), next_month)
          THEN <<rows[i]>> ELSE <<>>)
            \o SelectInOrder(rows, start, next_month, i + 1)

\* get_monthly_scans ending December at January of the same year
get_monthly_scans_same_year(rows, year, month) ==
    LET start == <<year, month, 1, 0>>
        next_month == IF month = 12 THEN <<year, 1, 1, 0>>
                      ELSE <<year, month + 1, 1, 0>>
    IN  SelectInOrder(rows, start, next_month, 1)

\* rows are inserted with non-decreasing timestamps, so insertion order is
\* ORDER BY timestamp ASC
get_monthly_scans(rows, year, month) ==
    LET start == <<year, month, 1, 0>>
        next_month == IF month = 12 THEN <<year + 1, 1, 1, 0>>
                      ELSE <<year, month + 1, 1, 0>>
    IN  SelectInOrder(rows, start, next_month, 1)

\* date(timestamp): the calendar day of a timestamp, which is in UTC
date(ts) == [year |-> ts.year, month |-> ts.month, day |-> ts.day]

\* cursor - timedelta(days=1)
PrevDay(cursor) ==
    LET leap == cursor.year % 4 = 0
                  /\ (cursor.year % 100 # 0 \/ cursor.year % 400 = 0)
        DaysInMonth(m) == IF m = 2 THEN (IF leap THEN 29 ELSE 28)
                          ELSE IF m \in {4, 6, 9, 11} THEN 30 ELSE 31
    IN  IF cursor.day > 1
        THEN [cursor EXCEPT !.day = cursor.day - 1]
        ELSE IF cursor.month > 1
        THEN [cursor EXCEPT !.month = cursor.month - 1,
                            !.day = DaysInMonth(cursor.month - 1)]
        ELSE [year |-> cursor.year - 1, month |-> 12, day |-> 31]

\* while cursor.isoformat() in day_set: streak += 1; cursor -= one day
RECURSIVE StreakFrom(_, _)
StreakFrom(day_set, cursor) ==
    IF cursor \in day_set THEN 1 + StreakFrom(day_set, PrevDay(cursor)) ELSE 0

\* today is date.today(), the day of the machine's local time zone
get_current_streak(rows, today) ==
    LET day_set == {date(rows[i].timestamp) : i \in DOMAIN rows}
    IN  IF day_set = {} THEN 0 ELSE StreakFrom(day_set, today)

(***************************************************************************)
(* main.py                                                                 *)
(***************************************************************************)
HTTPException(status_code, detail) ==
    [t |-> "HTTPException", status_code |-> status_code, detail |-> detail]

\* outcomes of the request to Open Food Facts
RequestException == [t |-> "RequestException"]
Payload(status, p) == [t |-> "payload", status |-> status, product |-> p]

\* pydantic validation of ScanRequest
ValidScanRequest(request) ==
    Len(request.barcode) >= 5 /\ Len(request.barcode) <= 32

\* fetch_product_from_open_food_facts reporting every failure as 502
fetch_product_from_open_food_facts_all_502(barcode, outcome) ==
    IF outcome.t = "RequestException" \/ outcome.status # 1
       \/ outcome.product = None
    THEN HTTPException(502, "Open Food Facts request failed")
    ELSE outcome.product

fetch_product_from_open_food_facts(barcode, outcome) ==
    IF outcome.t = "RequestException"
    THEN HTTPException(502, "Open Food Facts request failed")
    ELSE IF outcome.status # 1 \/ outcome.product = None
    THEN HTTPException(404, "Product not found.")
    ELSE outcome.product

\* product.get("product_name") or product.get("product_name_en")
\*   or "Unknown Product"
display_name(p) ==
    PyOr(PyOr(p.product_name, p.product_name_en), Str("Unknown Product")).v

build_product_result(barcode, city, outcome) ==
    IF ~IsSupportedCity(city)
    THEN HTTPException(400, "Unsupported city.")
    ELSE LET fetched == fetch_product_from_open_food_facts(barcode, outcome)
         IN  IF fetched.t = "HTTPException" THEN fetched
             ELSE LET product_name == display_name(fetched)
                      scored == score_product(fetched)
                      packaging_text == _build_packaging_text(fetched)
                      decision ==
                          get_disposal_instruction(city, Str(packaging_text))
                  IN  [t |-> "ProductResult",
                       barcode |-> barcode,
                       city |-> city,
                       product_name |-> product_name,
                       product_image |-> fetched.image_url,
                       impact_score |-> scored.score,
                       impact_label |->
                           IF scored.score \in DOMAIN IMPACT_TO_LABEL
                           THEN IMPACT_TO_LABEL[scored.score]
                           ELSE "Medium Impact",
                       impact_reason |-> scored.reason,
                       co2_estimate |-> estimate_co2(scored.score),
                       disposal_type |-> decision.disposal_type,
                       disposal_detail |-> decision.detail,
                       disposal_icon |-> decision.icon,
                       suggested_alternative |->
                           suggest_alternative(scored.score, product_name),
                       packaging_text |-> packaging_text]

\* build_product_result_calls with the city checked after the analysis
build_product_result_calls_late_check(barcode, city, outcome) ==
    LET lookup == <<[fn |-> "requests.get", arg |-> barcode]>>
        fetched == fetch_product_from_open_food_facts(barcode, outcome)
    IN  IF fetched.t = "HTTPException" THEN lookup
        ELSE lookup
             \o <<[fn |-> "score_product", arg |-> ""],
                  [fn |-> "estimate_co2", arg |-> score_product(fetched).score],
                  [fn |-> "get_disposal_instruction", arg |-> city],
                  [fn |-> "suggest_alternative", arg |-> score_product(fetched).score]>>

\* the calls build_product_result makes, in the order it makes them
build_product_result_calls(barcode, city, outcome) ==
    IF ~IsSupportedCity(city) THEN <<>>
    ELSE LET lookup == <<[fn |-> "requests.get", arg |-> barcode]>>
             fetched == fetch_product_from_open_food_facts(barcode, outcome)
         IN  IF fetched.t = "HTTPException" THEN lookup
             ELSE lookup
                  \o <<[fn |-> "score_product", arg |-> ""],
                       [fn |-> "estimate_co2", arg |-> score_product(fetched).score],
                       [fn |-> "get_disposal_instruction", arg |-> city],
                       [fn |-> "suggest_alternative", arg |-> score_product(fetched).score]>>

(***************************************************************************)
(* The products the lookup can return, the requests sent to the API and    *)
(* the entries made in the desktop application.                            *)
(***************************************************************************)
BeefJerky ==
    [t |-> "dict",
     categories_tags |-> List(<<"en:meats">>),
     labels_tags |-> None,
     packaging_tags |-> List(<<"en:plastic">>),
     product_name |-> Str("Beef Jerky"),
     product_name_en |-> None,
     ingredients_text |-> None,
     nova_group |-> Int_(4),
     packaging |-> Str("Plastic Bottle"),
     image_url |-> None]

OatDrink ==
    [t |-> "dict",
     categories_tags |-> None,
     labels_tags |-> List(<<"en:vegan">>),
     packaging_tags |-> List(<<"greasy", "cardboard">>),
     product_name |-> Str("Oat Drink"),
     product_name_en |-> None,
     ingredients_text |-> Str("water, oats"),
     nova_group |-> Int_(1),
     packaging |-> None,
     image_url |-> Str("https://images.example/oat.jpg")]

Unnamed ==
    [t |-> "dict",
     categories_tags |-> None,
     labels_tags |-> None,
     packaging_tags |-> None,
     product_name |-> None,
     product_name_en |-> Str("Beef Burger"),
     ingredients_text |-> None,
     nova_group |-> None,
     packaging |-> None,
     image_url |-> None]

Catalog == {BeefJerky, OatDrink, Unnamed}

LookupOutcomes ==
    {RequestException, Payload(0, None)} \cup {Payload(1, p) : p \in Catalog}

\* the outcomes of the lookups made by the desktop worker threads
DesktopOutcomes == {RequestException, Payload(0, None), Payload(1, Unnamed)}

ScanRequests ==
    {[barcode |-> "12345", city |-> "San Francisco"],
     [barcode |-> "123", city |-> "San Francisco"],
     [barcode |-> "12345", city |-> "Nowhere"]}

\* the city chosen in the desktop city box
CityChoices == {SUPPORTED_CITIES[1]}

HistoryLimits == {0, 1, 100}

ExportMonths == {<<2024, 12>>, <<2025, 1>>, <<2025, 13>>}

BarcodeEntries == {" 12345 ", "  "}

\* the texts typed into the barcode entry for analyses started in a row
AnalysisEntries == {"11111", " 22222 ", "33333"}

\* the texts of the manual barcode entry of the web frontend, and the cities
\* of its select box
FrontendEntries == {"12345", "123", ""}
FrontendCities == {"San Francisco", "Chicago"}

\* requests whose barcode has white space around it
PaddedRequests ==
    {[barcode |-> " 123 ", city |-> "San Francisco"],
     [barcode |-> "  12345", city |-> "San Francisco"],
     [barcode |-> "     ", city |-> "Chicago"],
     [barcode |-> " 12 ", city |-> "San Francisco"]}

\* every request the clients above send to POST /analyze and POST /scan
ApiRequests ==
    ScanRequests \cup PaddedRequests
        \cup [barcode : {strip(b) : b \in FrontendEntries}, city : FrontendCities]

\* build_product_result for the requests and lookup outcomes above, as a
\* table computed once (f @@ <<>> is the function f, enumerated)
ProductResults ==
    [x \in {strip(r.barcode) : r \in ApiRequests}
              \X {r.city : r \in ApiRequests} \X LookupOutcomes |->
        build_product_result(x[1], x[2], x[3])] @@ <<>>

\* the answer to a request: the handler, the HTTP status and the body
Response(handler, status, body) ==
    [handler |-> handler, status |-> status, body |-> body]

\* the server (re)starts
on_startup ==
    /\ scans' = init_db(scans)
    /\ response' = None
    /\ UNCHANGED <<now, desktopVars>>

\* analyze_product persisting the result it returns
analyze_product_saving(request, outcome) ==
    LET result ==
            build_product_result(strip(request.barcode), request.city, outcome)
    IN  IF ~ValidScanRequest(request)
        THEN /\ response' = Response("analyze_product", 422, None)
             /\ UNCHANGED <<scans, now, desktopVars>>
        ELSE IF result.t = "HTTPException"
        THEN /\ response' = Response("analyze_product", result.status_code,
                                     Str(result.detail))
             /\ UNCHANGED <<scans, now, desktopVars>>
        ELSE /\ scans' = insert_scan(scans, result.product_name, result.barcode,
                                     result.city, result.impact_score,
                                     result.disposal_type, result.co2_estimate)
             /\ response' = Response("analyze_product", 200, result)
             /\ UNCHANGED <<now, desktopVars>>

\* POST /analyze
analyze_product(request, outcome) ==
    /\ response' =
         IF ~ValidScanRequest(request)
         THEN Response("analyze_product", 422, None)
         ELSE LET result ==
                      ProductResults[<<strip(request.barcode), request.city, outcome>>]
              IN  IF result.t = "HTTPException"
                  THEN Response("analyze_product", result.status_code,
                                Str(result.detail))
                  ELSE Response("analyze_product", 200, result)
    /\ UNCHANGED <<scans, now, desktopVars>>

\* save_scan writing a row for a product that was not found
save_scan_placeholder(request, outcome) ==
    LET result ==
            build_product_result(strip(request.barcode), request.city, outcome)
    IN  IF ~ValidScanRequest(request)
        THEN /\ response' = Response("save_scan", 422, None)
             /\ UNCHANGED <<scans, now, desktopVars>>
        ELSE IF result.t = "HTTPException"
        THEN /\ response' =
                  Response("save_scan", result.status_code, Str(result.detail))
             /\ scans' =
                  IF result.status_code = 404
                  THEN insert_scan(scans, "Unknown Product",
                                   strip(request.barcode), request.city,
                                   "Yellow", "Check Local Guidelines", 25)
                  ELSE scans
             /\ UNCHANGED <<now, desktopVars>>
        ELSE LET scan_id == lastrowid(scans)
                 inserted ==
                     insert_scan(scans, result.product_name, result.barcode,
                                 result.city, result.impact_score,
                                 result.disposal_type, result.co2_estimate)
             IN  /\ scans' = inserted
                 /\ response' =
                      Response("save_scan", 200,
                               [saved |-> TRUE,
                                scan |-> get_scan_by_id(inserted, scan_id),
                                result |-> result])
                 /\ UNCHANGED <<now, desktopVars>>

\* POST /scan
save_scan(request, outcome) ==
    LET result ==
            ProductResults[<<strip(request.barcode), request.city, outcome>>]
    IN  IF ~ValidScanRequest(request)
        THEN /\ response' = Response("save_scan", 422, None)
             /\ UNCHANGED <<scans, now, desktopVars>>
        ELSE IF result.t = "HTTPException"
        THEN /\ response' =
                  Response("save_scan", result.status_code, Str(result.detail))
             /\ UNCHANGED <<scans, now, desktopVars>>
        ELSE LET scan_id == lastrowid(scans)
                 inserted ==
                     insert_scan(scans, result.product_name, result.barcode,
                                 result.city, result.impact_score,
                                 result.disposal_type, result.co2_estimate)
             IN  /\ scans' = inserted
                 /\ response' =
                      Response("save_scan", 200,
                               [saved |-> TRUE,
                                scan |-> get_scan_by_id(inserted, scan_id),
                                result |-> result])
                 /\ UNCHANGED <<now, desktopVars>>

\* GET /history
history(limit) ==
    /\ response' =
         IF limit < 1 \/ limit > 1000
         THEN Response("history", 422, None)
         ELSE Response("history", 200,
                       [items |-> get_scan_history(scans, limit)])
    /\ UNCHANGED <<scans, now, desktopVars>>

\* GET /analytics: the totals and the distribution by tier
analytics ==
    /\ response' =
         Response("analytics", 200,
                  [total_scans |-> get_total_scans(scans),
                   total_co2 |-> get_total_co2(scans),
                   impact_distribution |-> get_impact_distribution(scans)])
    /\ UNCHANGED <<scans, now, desktopVars>>

\* GET /streak
streak(today) ==
    /\ response' =
         Response("streak", 200, [days |-> get_current_streak(scans, today)])
    /\ UNCHANGED <<scans, now, desktopVars>>

\* str() of a float with one decimal, given in tenths
float_str(tenths) == ToString(tenths \div 10) \o "." \o ToString(tenths % 10)

CSV_HEADER ==
    <<"id", "product_name", "barcode", "city", "impact_score",
      "disposal_type", "co2_estimate", "timestamp">>

\* csv.writer.writerow of a row of the scans table
csv_row(row) ==
    <<ToString(row.id), row.product_name, row.barcode, row.city,
      row.impact_score, row.disposal_type, float_str(row.co2_estimate),
      row.timestamp>>

\* the header row followed by one row per scan
csv_rows(rows) == <<CSV_HEADER>> \o [i \in DOMAIN rows |-> csv_row(rows[i])]

\* GET /export/monthly
export_monthly_csv(year, month) ==
    /\ response' =
         IF year < 2000 \/ year > 2100 \/ month < 1 \/ month > 12
         THEN Response("export_monthly_csv", 422, None)
         ELSE Response("export_monthly_csv", 200,
                       csv_rows(get_monthly_scans(scans, year, month)))
    /\ UNCHANGED <<scans, now, desktopVars>>

(***************************************************************************)
(* frontend_app.py: the Scanner page.  api_call raises RuntimeError for    *)
(* every answer that is not a success, and the page then shows the error.  *)
(***************************************************************************)
\* the Analyze Product button
frontend_analyze_click(manual_barcode, city, outcome) ==
    LET barcode == strip(manual_barcode)
    IN  IF barcode = ""
        THEN UNCHANGED <<scans, now, response, desktopVars, latest_analysis>>
        ELSE /\ analyze_product([barcode |-> barcode, city |-> city], outcome)
             /\ latest_analysis' =
                  IF response'.status = 200 THEN response'.body
                  ELSE latest_analysis

\* the Save Scan button, shown under the result of the latest analysis
frontend_save_click(outcome) ==
    /\ latest_analysis # None
    /\ save_scan([barcode |-> latest_analysis.barcode,
                  city |-> latest_analysis.city], outcome)
    /\ UNCHANGED latest_analysis

(***************************************************************************)
(* desktop_app.py                                                          *)
(***************************************************************************)
\* EcoScanDesktopApp.fetch_product: a product or the exception raised
fetch_product(barcode, outcome) ==
    IF outcome.t = "RequestException"
    THEN [t |-> "Exception", message |-> "request failed"]
    ELSE IF outcome.status # 1 \/ outcome.product = None
    THEN [t |-> "Exception", message |-> "Product not found in Open Food Facts."]
    ELSE outcome.product

parse_product_result(barcode, city, p) ==
    LET product_name == display_name(p)
        packaging_text == _build_packaging_text(p)
        scored == score_product(p)
        decision == get_disposal_instruction(city, Str(packaging_text))
    IN  [t |-> "result",
         barcode |-> barcode,
         city |-> city,
         product_name |-> product_name,
         product_image |-> p.image_url,
         impact_score |-> scored.score,
         impact_label |->
             IF scored.score \in DOMAIN IMPACT_TO_LABEL
             THEN IMPACT_TO_LABEL[scored.score]
             ELSE "Medium Impact",
         impact_reason |-> scored.reason,
         disposal_type |-> decision.disposal_type,
         disposal_detail |-> decision.detail,
         disposal_icon |-> decision.icon,
         co2_estimate |-> estimate_co2(scored.score),
         suggested_alternative |->
             suggest_alternative(scored.score, product_name)]

\* EcoScanDesktopApp.analyze_product, up to the start of the worker thread
desktop_analyze_product(barcode_var, city_var) ==
    LET barcode == strip(barcode_var)
        city == strip(city_var)
    IN  IF barcode = ""
        THEN UNCHANGED <<scans, now, response, latest_result, workers,
                         ui_queue, scan_status, report_file>>
        ELSE /\ scan_status' = "Analyzing product..."
             /\ workers' = Append(workers, [barcode |-> barcode, city |-> city])
             /\ UNCHANGED <<scans, now, response, latest_result, ui_queue,
                            report_file>>

\* the body of the worker thread: the callback it hands to after(0, ...)
worker_callback(barcode, city, outcome) ==
    LET fetched == fetch_product(barcode, outcome)
    IN  IF fetched.t = "Exception"
        THEN [callback |-> "_on_analysis_error", arg |-> Str(fetched.message)]
        ELSE [callback |-> "_on_analysis_success",
              arg |-> parse_product_result(barcode, city, fetched)]

\* worker_callback for the entries and lookup outcomes above, as a table
\* computed once
WorkerCallbacks ==
    [x \in {strip(b) : b \in BarcodeEntries \cup AnalysisEntries}
              \X CityChoices \X DesktopOutcomes |->
        worker_callback(x[1], x[2], x[3])] @@ <<>>

\* the calls the worker thread makes, in the order it makes them
worker_calls(barcode, city, outcome) ==
    LET lookup == <<[fn |-> "requests.get", arg |-> barcode]>>
        fetched == fetch_product(barcode, outcome)
    IN  IF fetched.t = "Exception" THEN lookup
        ELSE lookup
             \o <<[fn |-> "score_product", arg |-> ""],
                  [fn |-> "get_disposal_instruction", arg |-> city],
                  [fn |-> "estimate_co2", arg |-> score_product(fetched).score],
                  [fn |-> "suggest_alternative", arg |-> score_product(fetched).score]>>

\* the worker thread of analyze_product
worker(n, outcome) ==
    /\ n \in DOMAIN workers
    /\ workers' = SubSeq(workers, 1, n - 1) \o SubSeq(workers, n + 1, Len(workers))
    /\ ui_queue' =
         Append(ui_queue,
                WorkerCallbacks[<<workers[n].barcode, workers[n].city, outcome>>])
    /\ UNCHANGED <<scans, now, response, latest_result, scan_status,
                   report_file>>

_on_analysis_success(result) ==
    /\ latest_result' = result
    /\ scan_status' = "Analysis complete."

_on_analysis_error(message) ==
    /\ scan_status' = "Analysis failed."
    /\ UNCHANGED latest_result

\* lambda: self._on_analysis_error(str(exc)), run by the Tk main loop.  exc
\* is the name bound by "except Exception as exc", which Python unbinds when
\* the worker thread leaves the except block: the lambda reads it while it
\* is still bound, or raises NameError, which Tk reports without calling
\* _on_analysis_error.
error_lambda(message, exc_bound) ==
    IF exc_bound
    THEN _on_analysis_error(message)
    ELSE UNCHANGED <<latest_result, scan_status>>

\* the Tk main loop runs the callback at the head of its queue
run_callback(exc_bound) ==
    /\ ui_queue # <<>>
    /\ ui_queue' = Tail(ui_queue)
    /\ IF Head(ui_queue).callback = "_on_analysis_success"
       THEN _on_analysis_success(Head(ui_queue).arg)
       ELSE error_lambda(Head(ui_queue).arg.v, exc_bound)
    /\ UNCHANGED <<scans, now, response, workers, report_file>>

\* save_scan storing the display label in the place of the tier
desktop_save_scan_label ==
    IF latest_result = None
    THEN UNCHANGED <<scans, now, response, latest_result, workers,
                     ui_queue, scan_status, report_file>>
    ELSE /\ scans' = insert_scan(scans, latest_result.product_name,
                                 latest_result.barcode, latest_result.city,
                                 latest_result.impact_label,
                                 latest_result.disposal_type,
                                 latest_result.co2_estimate)
         /\ scan_status' = "Saved scan #" \o ToString(lastrowid(scans)) \o "."
         /\ UNCHANGED <<now, response, latest_result, workers, ui_queue,
                        report_file>>

\* EcoScanDesktopApp.save_scan
desktop_save_scan ==
    IF latest_result = None
    THEN UNCHANGED <<scans, now, response, latest_result, workers,
                     ui_queue, scan_status, report_file>>
    ELSE /\ scans' = insert_scan(scans, latest_result.product_name,
                                 latest_result.barcode, latest_result.city,
                                 latest_result.impact_score,
                                 latest_result.disposal_type,
                                 latest_result.co2_estimate)
         /\ scan_status' = "Saved scan #" \o ToString(lastrowid(scans)) \o "."
         /\ UNCHANGED <<now, response, latest_result, workers, ui_queue,
                        report_file>>

DESKTOP_CSV_HEADER ==
    <<"id", "product_name", "barcode", "city", "impact_score",
      "disposal_type", "co2_estimate", "timestamp">>

\* desktop_csv_row with the tier and the disposal action in each other's column
desktop_csv_row_exchanged(row) ==
    <<ToString(row.id), row.product_name, row.barcode, row.city,
      row.disposal_type, row.impact_score, float_str(row.co2_estimate),
      row.timestamp>>

\* csv.writer.writerow of a row, in the desktop export
desktop_csv_row(row) ==
    <<ToString(row.id), row.product_name, row.barcode, row.city,
      row.impact_score, row.disposal_type, float_str(row.co2_estimate),
      row.timestamp>>

\* EcoScanDesktopApp.export_monthly_csv: today is the local date, and
\* destination is the path chosen in the save dialog, empty when cancelled
desktop_export_monthly_csv(today, destination) ==
    LET rows == get_monthly_scans(scans, today.year, today.month)
    IN  /\ report_file' =
             IF rows = <<>> \/ destination = ""
             THEN report_file
             ELSE [path |-> destination,
                   rows |-> <<DESKTOP_CSV_HEADER>>
                              \o [i \in DOMAIN rows |-> desktop_csv_row(rows[i])]]
        /\ UNCHANGED <<scans, now, response, latest_result, workers,
                       ui_queue, scan_status>>

(***************************************************************************)
(* Inputs of the classifier and of the estimator.                          *)
(***************************************************************************)
Products ==
    [t : {"dict"},
     categories_tags : {None, List(<<"en:packaged-foods">>),
                        List(<<"en:Meats", "en:snacks">>),
                        List(<<"en:plant-based-foods">>)},
     labels_tags : {None, List(<<"en:Vegan">>)},
     packaging_tags : {None, List(<<>>), List(<<"en:Paper", "en:box">>)},
     product_name : {None, Str(""), Str("Beef Jerky"), Str("Oat Drink")},
     product_name_en : {None},
     ingredients_text : {None, Str("vegetarian rennet")},
     nova_group : {None, Int_(4), Str(" 4 "), Int_(1)},
     packaging : {None, Str("Recyclable Bulk box")},
     image_url : {None}]

TierInputs == {"Red", "Yellow", "Green", "Blue", "red", ""}

(***************************************************************************)
(* Inputs of the disposal resolver.                                        *)
(***************************************************************************)
CityInputs == {"San Francisco", "Chicago", "Nowhere", ""}

PackagingInputs ==
    {None, Str(""), Str("plastic bottle wrap"), Str("styrofoam tray"),
     Str("plastic bottle"), Str("1 Glass Bottle"),
     Str("Glass Bottle and PLASTIC BOTTLE"), Str("greasy cardboard box"),
     Str("Greasy Cardboard, glass bottle"), Str("plastic"),
     Str("bottle plastic"), Str("plasticbottle"), Str("glass  bottle"),
     Str("en:paper"), Str("GREASY CARDBOARD plastic bottle")}

\* the scan store, the API, the desktop application and the web frontend
\* after start-up
InitStore ==
    /\ scans = <<>>
    /\ now = 1
    /\ response = None
    /\ latest_result = None
    /\ workers = <<>>
    /\ ui_queue = <<>>
    /\ scan_status = "Ready."
    /\ report_file = None
    /\ requested = <<>>
    /\ latest_analysis = None
    /\ handlers = <<>>
    /\ camera = NotCalled

(***************************************************************************)
(* The classifier and the estimator applied to a drawn input.              *)
(***************************************************************************)
InitScore ==
    /\ product \in Products
    /\ impact = NotCalled
    /\ tier_arg \in {Str(tier) : tier \in TierInputs}
    /\ co2 = NotCalled
    /\ city_arg = NotCalled
    /\ packaging_arg = NotCalled
    /\ disposal = NotCalled
    /\ name_arg = NotCalled
    /\ alternative = NotCalled
    /\ build_arg = NotCalled
    /\ api_built = NotCalled
    /\ desktop_built = NotCalled
    /\ InitStore

ScoreProduct ==
    /\ impact = NotCalled
    /\ impact' = score_product(product)
    /\ UNCHANGED <<product, tier_arg, co2, disposalVars, suggestVars, buildVars, storeVars, clientVars>>

EstimateCo2 ==
    /\ co2 = NotCalled
    /\ co2' = [t |-> "float", tenths |-> estimate_co2(tier_arg.v)]
    /\ UNCHANGED <<product, impact, tier_arg, disposalVars, suggestVars, buildVars, storeVars, clientVars>>

NextScore == ScoreProduct \/ EstimateCo2

SpecScore == InitScore /\ [][NextScore]_vars

(***************************************************************************)
(* The advisory sentence and the estimate for a drawn tier and product     *)
(* name.                                                                   *)
(***************************************************************************)
NameInputs ==
    {"", " ", "   ", "\t\n", " \t ", "Oat Drink", "  Oat Drink ", "Beef Jerky",
     "a", " x y\n"}

InitSuggest ==
    /\ tier_arg \in {Str(tier) : tier \in TierInputs}
    /\ name_arg \in {Str(name) : name \in NameInputs}
    /\ alternative = NotCalled
    /\ product = NotCalled
    /\ impact = NotCalled
    /\ co2 = NotCalled
    /\ city_arg = NotCalled
    /\ packaging_arg = NotCalled
    /\ disposal = NotCalled
    /\ build_arg = NotCalled
    /\ api_built = NotCalled
    /\ desktop_built = NotCalled
    /\ InitStore

SuggestAlternative ==
    /\ alternative = NotCalled
    /\ alternative' = Str(suggest_alternative(tier_arg.v, name_arg.v))
    /\ UNCHANGED <<name_arg, scoreVars, disposalVars, buildVars, storeVars, clientVars>>

NextSuggest == SuggestAlternative \/ EstimateCo2

SpecSuggest == InitSuggest /\ [][NextSuggest]_vars

(***************************************************************************)
(* The disposal resolver applied to a drawn input.                         *)
(***************************************************************************)
InitDisposal ==
    /\ city_arg \in {Str(c) : c \in CityInputs}
    /\ packaging_arg \in PackagingInputs
    /\ disposal = NotCalled
    /\ product = NotCalled
    /\ impact = NotCalled
    /\ tier_arg = NotCalled
    /\ co2 = NotCalled
    /\ name_arg = NotCalled
    /\ alternative = NotCalled
    /\ build_arg = NotCalled
    /\ api_built = NotCalled
    /\ desktop_built = NotCalled
    /\ InitStore

GetDisposalInstruction ==
    /\ disposal = NotCalled
    /\ disposal' = get_disposal_instruction(city_arg.v, packaging_arg)
    /\ UNCHANGED <<city_arg, packaging_arg, scoreVars, suggestVars, buildVars,
                   storeVars, clientVars>>

NextDisposal == GetDisposalInstruction

SpecDisposal == InitDisposal /\ [][NextDisposal]_vars

(***************************************************************************)
(* The scan store under requests to the API and actions of the desktop     *)
(* user.                                                                   *)
(***************************************************************************)
MaxScans == 2
MaxPending == 1

Init ==
    /\ product = NotCalled
    /\ impact = NotCalled
    /\ tier_arg = NotCalled
    /\ co2 = NotCalled
    /\ city_arg = NotCalled
    /\ packaging_arg = NotCalled
    /\ disposal = NotCalled
    /\ name_arg = NotCalled
    /\ alternative = NotCalled
    /\ build_arg = NotCalled
    /\ api_built = NotCalled
    /\ desktop_built = NotCalled
    /\ InitStore

ApiAnalyze ==
    /\ \E request \in ScanRequests, outcome \in LookupOutcomes :
          analyze_product(request, outcome)
    /\ UNCHANGED <<scoreVars, disposalVars, suggestVars, buildVars, clientVars>>

ApiSaveScan ==
    /\ Len(scans) < MaxScans
    /\ \E request \in ScanRequests, outcome \in LookupOutcomes :
          save_scan(request, outcome)
    /\ UNCHANGED <<scoreVars, disposalVars, suggestVars, buildVars, clientVars>>

ApiHistory ==
    /\ \E limit \in HistoryLimits : history(limit)
    /\ UNCHANGED <<scoreVars, disposalVars, suggestVars, buildVars, clientVars>>

ApiAnalytics ==
    analytics /\ UNCHANGED <<scoreVars, disposalVars, suggestVars, buildVars, clientVars>>

ApiExport ==
    /\ \E ym \in ExportMonths : export_monthly_csv(ym[1], ym[2])
    /\ UNCHANGED <<scoreVars, disposalVars, suggestVars, buildVars, clientVars>>

ApiStartup ==
    on_startup /\ UNCHANGED <<scoreVars, disposalVars, suggestVars, buildVars, clientVars>>

DesktopAnalyze ==
    /\ Len(workers) + Len(ui_queue) < MaxPending
    /\ \E barcode_var \in BarcodeEntries, city_var \in CityChoices :
          desktop_analyze_product(barcode_var, city_var)
    /\ UNCHANGED <<scoreVars, disposalVars, suggestVars, buildVars, clientVars>>

DesktopWorker ==
    /\ \E n \in DOMAIN workers, outcome \in DesktopOutcomes : worker(n, outcome)
    /\ UNCHANGED <<scoreVars, disposalVars, suggestVars, buildVars, clientVars>>

DesktopAnalysisSuccess ==
    /\ ui_queue # <<>>
    /\ Head(ui_queue).callback = "_on_analysis_success"
    /\ run_callback(TRUE)
    /\ UNCHANGED <<scoreVars, disposalVars, suggestVars, buildVars, clientVars>>

DesktopAnalysisError ==
    /\ ui_queue # <<>>
    /\ Head(ui_queue).callback = "_on_analysis_error"
    /\ \E exc_bound \in BOOLEAN : run_callback(exc_bound)
    /\ UNCHANGED <<scoreVars, disposalVars, suggestVars, buildVars, clientVars>>

DesktopSaveScan ==
    /\ Len(scans) < MaxScans
    /\ desktop_save_scan
    /\ UNCHANGED <<scoreVars, disposalVars, suggestVars, buildVars, clientVars>>

Next ==
    \/ ApiAnalyze
    \/ ApiSaveScan
    \/ ApiHistory
    \/ ApiAnalytics
    \/ ApiExport
    \/ ApiStartup
    \/ DesktopAnalyze
    \/ DesktopWorker
    \/ DesktopAnalysisSuccess
    \/ DesktopAnalysisError
    \/ DesktopSaveScan

Spec == Init /\ [][Next]_vars

(***************************************************************************)
(* The reports: scans saved while time passes, exported by the API and by  *)
(* the desktop application, listed by GET /history and counted by          *)
(* GET /streak.                                                            *)
(***************************************************************************)
\* dt.date.today() of the desktop: every instant of Timeline is within two
\* seconds of midnight UTC, so the local date is one of the two days
LocalDates ==
    {[year |-> 2024, month |-> 12, day |-> 31],
     [year |-> 2025, month |-> 1, day |-> 1]}

\* the path chosen in the save dialog; "" when the dialog is cancelled
Destinations == {"", "report.csv"}

\* time passes
Tick ==
    /\ now < Len(Timeline)
    /\ now' = now + 1
    /\ UNCHANGED <<scans, response, desktopVars, scoreVars, disposalVars,
                   suggestVars, buildVars, clientVars>>

DesktopExport ==
    /\ \E today \in LocalDates, destination \in Destinations :
          desktop_export_monthly_csv(today, destination)
    /\ UNCHANGED <<scoreVars, disposalVars, suggestVars, buildVars, clientVars>>

\* the streak is asked for on a server whose local day is today
ApiStreak ==
    /\ \E today \in LocalDates : streak(today)
    /\ UNCHANGED <<scoreVars, disposalVars, suggestVars, buildVars, clientVars>>

NextReports ==
    \/ ApiSaveScan
    \/ Tick
    \/ ApiExport
    \/ DesktopExport
    \/ ApiHistory
    \/ ApiStreak

SpecReports == Init /\ [][NextReports]_vars

(***************************************************************************)
(* One analysis, by the API and by the desktop worker, of a drawn barcode, *)
(* city and lookup outcome.                                                *)
(***************************************************************************)
\* requests.get timing out, and raise_for_status on an HTTP error status:
\* both are subclasses of requests.RequestException
Timeout == [t |-> "RequestException", kind |-> "Timeout"]
HTTPError == [t |-> "RequestException", kind |-> "HTTPError"]

BuildOutcomes ==
    {Timeout, HTTPError, Payload(0, None), Payload(1, None),
     Payload(0, OatDrink)} \cup {Payload(1, p) : p \in Catalog}

BuildBarcodes == {"12345", "0000000000000"}

\* the values of the read-only city box of the desktop application
city_box == {SUPPORTED_CITIES[i] : i \in DOMAIN SUPPORTED_CITIES}

InitBuild ==
    /\ build_arg \in [barcode : BuildBarcodes, city : CityInputs,
                       outcome : BuildOutcomes]
    /\ api_built = NotCalled
    /\ desktop_built = NotCalled
    /\ product = NotCalled
    /\ impact = NotCalled
    /\ tier_arg = NotCalled
    /\ co2 = NotCalled
    /\ city_arg = NotCalled
    /\ packaging_arg = NotCalled
    /\ disposal = NotCalled
    /\ name_arg = NotCalled
    /\ alternative = NotCalled
    /\ InitStore

BuildProductResult ==
    /\ api_built = NotCalled
    /\ api_built' =
         [result |-> build_product_result(build_arg.barcode, build_arg.city,
                                          build_arg.outcome),
          calls |-> build_product_result_calls(build_arg.barcode,
                                               build_arg.city,
                                               build_arg.outcome)]
    /\ UNCHANGED <<build_arg, desktop_built, scoreVars, disposalVars,
                   suggestVars, storeVars, clientVars>>

\* the worker thread started by Analyze with the city of the city box
DesktopWorkerRun ==
    /\ desktop_built = NotCalled
    /\ build_arg.city \in city_box
    /\ desktop_built' =
         [result |-> worker_callback(build_arg.barcode, build_arg.city,
                                     build_arg.outcome),
          calls |-> worker_calls(build_arg.barcode, build_arg.city,
                                 build_arg.outcome)]
    /\ UNCHANGED <<build_arg, api_built, scoreVars, disposalVars,
                   suggestVars, storeVars, clientVars>>

NextBuild == BuildProductResult \/ DesktopWorkerRun

SpecBuild == InitBuild /\ [][NextBuild]_vars

(***************************************************************************)
(* Analyses started one after another in the desktop application, each in  *)
(* its own worker thread; the threads finish their lookups in any order.   *)
(* requested lists the analyses started, each with the state of its        *)
(* lookup: "pending", "found" or "failed".                                 *)
(***************************************************************************)
MaxAnalyses == 2

\* the Analyze button, pressed for a barcode that was not analysed before
DesktopAnalyzeNext ==
    /\ Len(requested) < MaxAnalyses
    /\ \E barcode_var \in AnalysisEntries, city_var \in CityChoices :
          /\ \A i \in DOMAIN requested : requested[i].barcode # strip(barcode_var)
          /\ desktop_analyze_product(barcode_var, city_var)
          /\ requested' =
               IF strip(barcode_var) = "" THEN requested
               ELSE Append(requested, [barcode |-> strip(barcode_var),
                                       city |-> strip(city_var),
                                       lookup |-> "pending"])
    /\ UNCHANGED <<scoreVars, disposalVars, suggestVars, buildVars,
                   latest_analysis, handlers, camera>>

\* one of the worker threads finishes its lookup and queues its callback
DesktopWorkerNext ==
    /\ \E n \in DOMAIN workers, outcome \in DesktopOutcomes :
          /\ worker(n, outcome)
          /\ requested' =
               [i \in DOMAIN requested |->
                   IF requested[i].barcode = workers[n].barcode
                   THEN [requested[i] EXCEPT !.lookup =
                            IF fetch_product(workers[n].barcode, outcome).t
                                   = "Exception"
                            THEN "failed" ELSE "found"]
                   ELSE requested[i]]
    /\ UNCHANGED <<scoreVars, disposalVars, suggestVars, buildVars,
                   latest_analysis, handlers, camera>>

NextDesktop ==
    \/ DesktopAnalyzeNext
    \/ DesktopWorkerNext
    \/ DesktopAnalysisSuccess
    \/ DesktopAnalysisError
    \/ DesktopSaveScan

SpecDesktop == Init /\ [][NextDesktop]_vars

(***************************************************************************)
(* The web frontend and the desktop application, each analysing a product, *)
(* showing the result and saving a scan.                                   *)
(***************************************************************************)
FrontendAnalyze ==
    /\ \E manual_barcode \in FrontendEntries, city \in FrontendCities,
          outcome \in LookupOutcomes :
          frontend_analyze_click(manual_barcode, city, outcome)
    /\ UNCHANGED <<scoreVars, disposalVars, suggestVars, buildVars, requested,
                   handlers, camera>>

FrontendSave ==
    /\ Len(scans) < MaxScans
    /\ \E outcome \in LookupOutcomes : frontend_save_click(outcome)
    /\ UNCHANGED <<scoreVars, disposalVars, suggestVars, buildVars, requested,
                   handlers, camera>>

NextFrontend ==
    \/ FrontendAnalyze
    \/ FrontendSave
    \/ DesktopAnalyze
    \/ DesktopWorker
    \/ DesktopAnalysisSuccess
    \/ DesktopAnalysisError
    \/ DesktopSaveScan

SpecFrontend == Init /\ [][NextFrontend]_vars

(***************************************************************************)
(* Requests to POST /analyze and POST /scan whose barcode has white space  *)
(* around it.                                                              *)
(***************************************************************************)
ApiAnalyzePadded ==
    /\ \E request \in PaddedRequests, outcome \in LookupOutcomes :
          analyze_product(request, outcome)
    /\ UNCHANGED <<scoreVars, disposalVars, suggestVars, buildVars, clientVars>>

ApiSavePadded ==
    /\ Len(scans) < MaxScans
    /\ \E request \in PaddedRequests, outcome \in LookupOutcomes :
          save_scan(request, outcome)
    /\ UNCHANGED <<scoreVars, disposalVars, suggestVars, buildVars, clientVars>>

NextPadded == ApiAnalyzePadded \/ ApiSavePadded

SpecPadded == Init /\ [][NextPadded]_vars

(***************************************************************************)
(* POST /scan handlers running side by side in the server's thread pool.   *)
(* Each handler is at one statement of save_scan: after build_product_     *)
(* result it is about to insert ("insert") or has raised ("raised"), after *)
(* insert_scan it is about to read the row back ("read"), and after        *)
(* get_scan_by_id it has answered ("done").  insert_scan and               *)
(* get_scan_by_id each run in a connection and transaction of their own.   *)
(***************************************************************************)
MaxHandlers == 2

\* a request arrives: main.py:141-142
SaveScanCall ==
    /\ Len(handlers) < MaxHandlers
    /\ \E request \in ApiRequests, outcome \in DesktopOutcomes :
          LET result ==
                  ProductResults[<<strip(request.barcode), request.city, outcome>>]
          IN  /\ ValidScanRequest(request)
              /\ handlers' =
                   Append(handlers,
                          [pc |-> IF result.t = "HTTPException"
                                  THEN "raised" ELSE "insert",
                           request |-> request,
                           result |-> result,
                           scan_id |-> 0,
                           scan_row |-> None])
              /\ response' =
                   IF result.t = "HTTPException"
                   THEN Response("save_scan", result.status_code,
                                 Str(result.detail))
                   ELSE response
    /\ UNCHANGED <<scans, now, desktopVars, scoreVars, disposalVars,
                   suggestVars, buildVars, requested, latest_analysis, camera>>

\* scan_id = insert_scan(...): main.py:143-150
SaveScanInsert ==
    /\ \E h \in DOMAIN handlers :
          LET result == handlers[h].result
          IN  /\ handlers[h].pc = "insert"
              /\ scans' = insert_scan(scans, result.product_name,
                                      result.barcode, result.city,
                                      result.impact_score, result.disposal_type,
                                      result.co2_estimate)
              /\ handlers' = [handlers EXCEPT ![h].pc = "read",
                                              ![h].scan_id = lastrowid(scans)]
    /\ UNCHANGED <<now, response, desktopVars, scoreVars, disposalVars,
                   suggestVars, buildVars, requested, latest_analysis, camera>>

\* scan_row = get_scan_by_id(scan_id) and the answer: main.py:151-152
SaveScanReturn ==
    /\ \E h \in DOMAIN handlers :
          LET scan_row == get_scan_by_id(scans, handlers[h].scan_id)
          IN  /\ handlers[h].pc = "read"
              /\ handlers' = [handlers EXCEPT ![h].pc = "done",
                                              ![h].scan_row = scan_row]
              /\ response' =
                   Response("save_scan", 200,
                            [saved |-> TRUE, scan |-> scan_row,
                             result |-> handlers[h].result])
    /\ UNCHANGED <<scans, now, desktopVars, scoreVars, disposalVars,
                   suggestVars, buildVars, requested, latest_analysis, camera>>

NextConcurrent == SaveScanCall \/ SaveScanInsert \/ SaveScanReturn

SpecConcurrent == Init /\ [][NextConcurrent]_vars

(***************************************************************************)
(* camera.py: scan_barcode_from_webcam.  camera holds the call in progress: *)
(* pc is "loop" while the call is in its while loop, "returned" after it    *)
(* returned a CameraScanResult and "raised" after an exception left the     *)
(* try block; elapsed is time.time() - start in whole seconds; released     *)
(* tells whether capture.release() ran.  The camera delivers at most        *)
(* MaxFrames frames to one call.                                            *)
(***************************************************************************)
MaxFrames == 2

CameraScanResult(barcode, error, frames_seen) ==
    [barcode |-> barcode, error |-> error, frames_seen |-> frames_seen]

\* the outcomes of decode(frame): nothing decoded, or the data of the first
\* symbol
DecodedData == {None, Str("  "), Str(" 0123456789 ")}

\* the return statements after the finally block
scan_result_no_frame_check(found_barcode, frames_seen, timeout_seconds) ==
    IF found_barcode # None
    THEN CameraScanResult(found_barcode, None, frames_seen)
    ELSE CameraScanResult(None,
             Str("No barcode detected within " \o ToString(timeout_seconds)
                 \o "s."),
             frames_seen)

scan_result(found_barcode, frames_seen, timeout_seconds) ==
    IF found_barcode # None
    THEN CameraScanResult(found_barcode, None, frames_seen)
    ELSE IF frames_seen = 0
    THEN CameraScanResult(None,
             Str("Camera opened but no frames captured. Check camera "
                 \o "permission for the terminal app."),
             0)
    ELSE CameraScanResult(None,
             Str("No barcode detected within " \o ToString(timeout_seconds)
                 \o "s."),
             frames_seen)

\* the call up to the while loop
CameraCall ==
    /\ IF camera = NotCalled THEN TRUE
       ELSE camera.pc \in {"returned", "raised"}
    /\ \E timeout_seconds \in {0, 1, 2}, camera_index \in {0, 1},
          on_frame \in BOOLEAN, isOpened \in BOOLEAN :
          camera' =
            IF ~isOpened
            THEN [pc |-> "returned",
                  timeout_seconds |-> timeout_seconds,
                  camera_index |-> camera_index,
                  on_frame |-> on_frame,
                  isOpened |-> FALSE,
                  released |-> TRUE,
                  elapsed |-> 0,
                  frames_seen |-> 0,
                  result |->
                    CameraScanResult(None,
                        Str("Unable to open camera index "
                            \o ToString(camera_index) \o "."),
                        0)]
            ELSE [pc |-> "loop",
                  timeout_seconds |-> timeout_seconds,
                  camera_index |-> camera_index,
                  on_frame |-> on_frame,
                  isOpened |-> TRUE,
                  released |-> FALSE,
                  elapsed |-> 0,
                  frames_seen |-> 0,
                  result |-> None]
    /\ UNCHANGED <<storeVars, scoreVars, disposalVars, suggestVars, buildVars,
                   requested, latest_analysis, handlers>>

\* one test of the loop condition and, when it holds, one pass through the
\* body; the finally block and the return statement follow the last pass
CameraLoop ==
    /\ camera # NotCalled
    /\ camera.pc = "loop"
    /\ IF camera.elapsed > camera.timeout_seconds
       THEN camera' =
              [camera EXCEPT !.pc = "returned",
                             !.released = TRUE,
                             !.result = scan_result(None, camera.frames_seen,
                                                    camera.timeout_seconds)]
       ELSE \E ok \in IF camera.frames_seen < MaxFrames
                      THEN BOOLEAN ELSE {FALSE},
               raises \in IF camera.on_frame THEN BOOLEAN ELSE {FALSE},
               decoded \in DecodedData :
               LET frames_seen == camera.frames_seen + 1
                   code == IF decoded = None THEN "" ELSE strip(decoded.v)
               IN  IF ~ok
                   THEN UNCHANGED camera
                   ELSE IF raises
                   THEN camera' = [camera EXCEPT !.pc = "raised",
                                                 !.released = TRUE,
                                                 !.frames_seen = frames_seen]
                   ELSE IF code # ""
                   THEN camera' =
                          [camera EXCEPT
                             !.pc = "returned",
                             !.released = TRUE,
                             !.frames_seen = frames_seen,
                             !.result = scan_result(Str(code), frames_seen,
                                                    camera.timeout_seconds)]
                   ELSE camera' = [camera EXCEPT !.frames_seen = frames_seen]
    /\ UNCHANGED <<storeVars, scoreVars, disposalVars, suggestVars, buildVars,
                   requested, latest_analysis, handlers>>

\* a second passes while the call is in its loop
CameraTick ==
    /\ camera # NotCalled
    /\ camera.pc = "loop"
    /\ camera.elapsed <= camera.timeout_seconds
    /\ camera' = [camera EXCEPT !.elapsed = camera.elapsed + 1]
    /\ UNCHANGED <<storeVars, scoreVars, disposalVars, suggestVars, buildVars,
                   requested, latest_analysis, handlers>>

NextCamera == CameraCall \/ CameraLoop \/ CameraTick

\* the thread of the call keeps running and time keeps passing
SpecCamera ==
    Init /\ [][NextCamera]_vars /\ WF_vars(CameraLoop) /\ WF_vars(CameraTick)

(***************************************************************************)
(* Properties of the classifier (SpecScore).                               *)
(***************************************************************************)
Scored == impact # NotCalled

\* the rule conditions of section 4.1, on the texts the classifier builds
MeatRule(p) ==
    LET combined == combined_of(p)
    IN  Contains(combined, "beef") \/ Contains(combined, "meat")

ProcessedRule(p) ==
    nova_group_of(p) = "4" \/ Contains(category_blob_of(p), "packaged-foods")

PlantRule(p) ==
    LET combined == combined_of(p)
    IN  \/ Contains(combined, "plant")
        \/ Contains(combined, "vegan")
        \/ Contains(combined, "vegetarian")
        \/ Contains(combined, "plant-based")

PackagingKeyword(text) ==
    Contains(text, "bulk") \/ Contains(text, "recyclable") \/ Contains(text, "paper")

\* C1: whenever the combined text contains "beef" or "meat", score_product
\* returns Red, whatever the processing level and the other fields are.
C1_MeatIsRed == Scored /\ MeatRule(product) => impact.score = "Red"

C1_Witness ==
    /\ Scored
    /\ MeatRule(product)
    /\ nova_group_of(product) = "4"
    /\ PlantRule(product)
    /\ impact.score = "Red"

\* C2: score_product returns the tier and rationale of the first rule, in
\* the order meat, ultra-processed, plant-based, packaging, default, whose
\* condition holds; a later rule never overrides an earlier one.
C2_FirstMatchWins ==
    Scored =>
        impact =
            IF MeatRule(product)
            THEN [score |-> "Red",
                  reason |-> "Category indicates meat-heavy product (higher footprint)."]
            ELSE IF ProcessedRule(product)
            THEN [score |-> "Yellow",
                  reason |-> "Likely ultra-processed packaged food."]
            ELSE IF PlantRule(product)
            THEN [score |-> "Green", reason |-> "Plant-based indicators found."]
            ELSE IF PackagingKeyword(packaging_blob_of(product))
            THEN [score |-> "Green",
                  reason |-> "Lower-impact packaging indicators found."]
            ELSE [score |-> "Yellow",
                  reason |-> "Insufficient certainty; assigned medium impact."]

\* a vegan product of processing level 4 is Medium, not Low
C2_Witness ==
    /\ Scored
    /\ ~MeatRule(product)
    /\ nova_group_of(product) = "4"
    /\ Contains(combined_of(product), "vegan")
    /\ impact.score = "Yellow"

\* C3: when no rule keyword occurs and the processing level is not "4",
\* also when every field is absent or empty, score_product returns Yellow
\* with the insufficient-certainty rationale.
C3_DefaultMedium ==
    (/\ Scored
     /\ ~MeatRule(product)
     /\ ~ProcessedRule(product)
     /\ ~PlantRule(product)
     /\ ~PackagingKeyword(packaging_blob_of(product)))
    => /\ impact.score = "Yellow"
       /\ Contains(lower(impact.reason), "insufficient certainty")

C3_Witness ==
    /\ Scored
    /\ \A f \in DOMAIN product \ {"t"} : product[f] = None
    /\ impact.score = "Yellow"
    /\ Contains(lower(impact.reason), "insufficient certainty")

\* C4 as stated: when rules 1-3 do not apply and the packaging text handed
\* to the disposal resolver (packaging tags and raw packaging string)
\* contains "bulk", "recyclable" or "paper", score_product returns Green
\* with the packaging rationale.
C4_Original ==
    (/\ Scored
     /\ ~MeatRule(product)
     /\ ~ProcessedRule(product)
     /\ ~PlantRule(product)
     /\ PackagingKeyword(lower(_build_packaging_text(product))))
    => impact = [score |-> "Green",
                 reason |-> "Lower-impact packaging indicators found."]

\* C4 amended: when rules 1-3 do not apply and the lower-cased packaging
\* tags contain "bulk", "recyclable" or "paper", score_product returns
\* Green with the packaging rationale; the raw packaging string is not read.
C4_PackagingTagsOnly ==
    (/\ Scored
     /\ ~MeatRule(product)
     /\ ~ProcessedRule(product)
     /\ ~PlantRule(product))
    => (impact = [score |-> "Green",
                  reason |-> "Lower-impact packaging indicators found."]
          <=> PackagingKeyword(packaging_blob_of(product)))

C4_Witness ==
    /\ Scored
    /\ ~MeatRule(product)
    /\ ~ProcessedRule(product)
    /\ ~PlantRule(product)
    /\ PackagingKeyword(packaging_blob_of(product))
    /\ impact.reason = "Lower-impact packaging indicators found."

\* C5: estimate_co2 is 5.0 for Red, 2.5 for Yellow, 0.8 for Green and 2.5
\* for every other tier value (tenths of a kilogram here).
C5_EstimateByTier ==
    co2 # NotCalled =>
        co2.tenths =
            CASE tier_arg.v = "Red" -> 50
              [] tier_arg.v = "Yellow" -> 25
              [] tier_arg.v = "Green" -> 8
              [] OTHER -> 25

C5_Witness ==
    /\ co2 # NotCalled
    /\ tier_arg.v \notin {"Red", "Yellow", "Green"}
    /\ co2.tenths = 25

(***************************************************************************)
(* Properties of the disposal resolver (SpecDisposal).                     *)
(***************************************************************************)
Resolved == disposal # NotCalled

Actions == {"Recycle", "Trash", "Check Local Guidelines"}

\* C6 as stated: resolving for a city outside the supported set fails with
\* a validation error instead of returning a decision.
C6_Original ==
    Resolved /\ ~IsSupportedCity(city_arg.v) => disposal.t = "ValidationError"

\* C6 amended: get_disposal_instruction does not fail for a city outside
\* the supported set; it returns a decision for that city whose action is
\* "Check Local Guidelines", with the material it detected.
C6_UnsupportedCityFallsBack ==
    Resolved /\ ~IsSupportedCity(city_arg.v) =>
        /\ disposal.t = "decision"
        /\ disposal.city = city_arg.v
        /\ disposal.disposal_type = "Check Local Guidelines"
        /\ disposal.icon = "info-icon"

C6_Witness ==
    /\ Resolved
    /\ city_arg.v = "Nowhere"
    /\ packaging_arg = Str("plastic bottle")
    /\ disposal.t = "decision"
    /\ disposal.material = "plastic bottle"
    /\ disposal.disposal_type = "Check Local Guidelines"

\* the first of the three materials occurring in the lower-cased text
FirstMaterial(text) ==
    LET lowered == lower(text)
    IN  IF Contains(lowered, "plastic bottle") THEN "plastic bottle"
        ELSE IF Contains(lowered, "glass bottle") THEN "glass bottle"
        ELSE IF Contains(lowered, "greasy cardboard") THEN "greasy cardboard"
        ELSE "unknown"

ArgText == IF packaging_arg.t = "str" THEN packaging_arg.v ELSE ""

\* C7: for a supported city the action is the table entry of the detected
\* material: Recycle for plastic and glass bottles, Trash for greasy
\* cardboard, Check Local Guidelines for an unknown material; the action is
\* always one of the three.
C7_ActionFromTable ==
    Resolved /\ disposal.t = "decision" =>
        /\ disposal.disposal_type \in Actions
        /\ IsSupportedCity(city_arg.v) =>
              disposal.disposal_type =
                CASE FirstMaterial(ArgText) = "plastic bottle" -> "Recycle"
                  [] FirstMaterial(ArgText) = "glass bottle" -> "Recycle"
                  [] FirstMaterial(ArgText) = "greasy cardboard" -> "Trash"
                  [] OTHER -> "Check Local Guidelines"

C7_Witness ==
    /\ Resolved
    /\ city_arg.v = "Chicago"
    /\ packaging_arg = Str("greasy cardboard box")
    /\ disposal.disposal_type = "Trash"

\* C8 as stated: for a known material the detail is "{material} -> {action}"
\* with the material as in the material field.
C8_Original ==
    Resolved /\ disposal.t = "decision" /\ disposal.material # "unknown" =>
        disposal.detail = disposal.material \o " -> " \o disposal.disposal_type

\* C8 amended: for a known material the detail is the title-cased material,
\* " -> " and the action ("Plastic Bottle -> Recycle"); for an unknown
\* material it is the generic guidance string.
C8_DetailTitleCased ==
    Resolved /\ disposal.t = "decision" =>
        disposal.detail =
            CASE disposal.material = "plastic bottle" ->
                    "Plastic Bottle -> " \o disposal.disposal_type
              [] disposal.material = "glass bottle" ->
                    "Glass Bottle -> " \o disposal.disposal_type
              [] disposal.material = "greasy cardboard" ->
                    "Greasy Cardboard -> " \o disposal.disposal_type
              [] OTHER -> "Material unclear. Follow local sorting guidelines."

C8_Witness ==
    /\ Resolved
    /\ disposal.material = "plastic bottle"
    /\ disposal.detail = "Plastic Bottle -> Recycle"

\* C9: the detected material is the first of "plastic bottle", "glass
\* bottle", "greasy cardboard", in that order and wherever they occur, that
\* is a substring of the lower-cased packaging text, and "unknown" when
\* none is or the text is empty or null.
C9_FirstMaterialDetected ==
    Resolved /\ disposal.t = "decision" =>
        /\ disposal.material = FirstMaterial(ArgText)
        /\ ArgText = "" => disposal.material = "unknown"

\* a glass bottle named before a plastic bottle, in upper case
C9_Witness ==
    /\ Resolved
    /\ packaging_arg = Str("Glass Bottle and PLASTIC BOTTLE")
    /\ disposal.material = "plastic bottle"

(***************************************************************************)
(* Properties of the scan store (Spec).                                    *)
(***************************************************************************)
Tiers == {"Red", "Yellow", "Green"}

\* C10: every persisted row has impact_score in {Red, Yellow, Green} and
\* disposal_type in {Recycle, Trash, Check Local Guidelines}, whatever
\* requests the API answered and whatever the desktop user did.
C10_StoredEnumerations ==
    \A i \in DOMAIN scans :
        /\ scans[i].impact_score \in Tiers
        /\ scans[i].disposal_type \in Actions

\* a row saved from the desktop after an analysis
C10_Witness ==
    /\ Len(scans) = 1
    /\ scan_status = "Saved scan #1."
    /\ latest_result # None
    /\ scans[1].impact_score = latest_result.impact_score
    /\ scans[1].disposal_type \in Actions

\* a step in which the API or the desktop application saved a scan
ApiSaved ==
    /\ response' # None
    /\ response' # response
    /\ response'.handler = "save_scan"
    /\ response'.status = 200

DesktopSaved ==
    /\ scan_status' # scan_status
    /\ scan_status' = "Saved scan #" \o ToString(Len(scans')) \o "."

\* C11: every step keeps each row of the scans table as it is, with its id
\* and its values; a step that saves adds one row at the end, and every
\* other step (start-up with init_db, analyze, history, analytics, export,
\* a save that is refused) leaves the table as it is.
C11_AppendOnly ==
    [][/\ \A i \in DOMAIN scans : i \in DOMAIN scans' /\ scans'[i] = scans[i]
       /\ IF ApiSaved \/ DesktopSaved
          THEN Len(scans') = Len(scans) + 1
          ELSE scans' = scans]_vars

\* two rows, and the server restarted after the second was saved
C11_Witness ==
    /\ Len(scans) = 2
    /\ scans[1].id = 1
    /\ scans[2].id = 2
    /\ response = None

RoundTripFields ==
    {"product_name", "barcode", "city", "impact_score", "disposal_type",
     "co2_estimate"}

\* C12: the row that save_scan reads back by the id insert_scan returned
\* has the product_name, barcode, city, impact_score, disposal_type and
\* co2_estimate of the result that was inserted; the store adds the id and
\* the timestamp.
C12_RoundTrip ==
    (/\ response # None
     /\ response.handler = "save_scan"
     /\ response.status = 200)
    => /\ response.body.scan # None
       /\ \A f \in RoundTripFields :
             response.body.scan[f] = response.body.result[f]
       /\ DOMAIN response.body.scan = RoundTripFields \cup {"id", "timestamp"}

\* the second row saved, read back by its id
C12_Witness ==
    /\ response # None
    /\ response.handler = "save_scan"
    /\ response.status = 200
    /\ response.body.scan.id = 2
    /\ response.body.scan = scans[2]
    /\ scans[1].product_name # scans[2].product_name

\* C13: a save request is answered 200 with the full result and has added
\* one row, or it is answered with an error and its detail and the table
\* is as it was; an unsupported city (400), a failed lookup (502) and a
\* product that was not found (404) write no row.
C13_SaveAllOrNothing ==
    [][(/\ response' # None
        /\ response'.handler = "save_scan"
        /\ UNCHANGED <<now, desktopVars>>) =>
          \A request \in ScanRequests, outcome \in LookupOutcomes :
              save_scan(request, outcome) =>
                  IF /\ ValidScanRequest(request)
                     /\ IsSupportedCity(request.city)
                     /\ outcome.t = "payload"
                     /\ outcome.status = 1
                     /\ outcome.product # None
                  THEN /\ response'.status = 200
                       /\ response'.body.result.t = "ProductResult"
                       /\ Len(scans') = Len(scans) + 1
                  ELSE /\ response'.status \in {400, 404, 422, 502}
                       /\ response'.status # 422 => response'.body.v # ""
                       /\ scans' = scans]_vars

\* a save refused for a product that was not found, after one that was saved
C13_Witness ==
    /\ Len(scans) = 1
    /\ response # None
    /\ response.handler = "save_scan"
    /\ response.status = 404
    /\ response.body = Str("Product not found.")

\* the results the API returned last, the desktop shows and the desktop
\* has queued for showing
ProducedResults ==
    (IF response # None /\ response.status = 200
        /\ response.handler = "analyze_product"
     THEN {response.body} ELSE {})
    \cup (IF response # None /\ response.status = 200
             /\ response.handler = "save_scan"
          THEN {response.body.result} ELSE {})
    \cup (IF latest_result # None THEN {latest_result} ELSE {})
    \cup {ui_queue[i].arg :
            i \in {j \in DOMAIN ui_queue :
                      ui_queue[j].callback = "_on_analysis_success"}}

TierCo2(tier) ==
    CASE tier = "Red" -> 50 [] tier = "Yellow" -> 25 [] tier = "Green" -> 8

TierLabel(tier) ==
    CASE tier = "Red" -> "High Impact"
      [] tier = "Yellow" -> "Medium Impact"
      [] tier = "Green" -> "Low Impact"

\* C18: every result produced has the CO2 value and the label of its tier
\* (Red 5.0 High Impact, Yellow 2.5 Medium Impact, Green 0.8 Low Impact),
\* and every stored row has the CO2 value of its tier.
C18_TierConstants ==
    /\ \A r \in ProducedResults :
          /\ r.impact_score \in Tiers
          /\ r.co2_estimate = TierCo2(r.impact_score)
          /\ r.impact_label = TierLabel(r.impact_score)
    /\ \A i \in DOMAIN scans :
          /\ scans[i].impact_score \in Tiers
          /\ scans[i].co2_estimate = TierCo2(scans[i].impact_score)

\* a Red and a Green row stored, a Yellow result on the desktop
C18_Witness ==
    /\ Len(scans) = 2
    /\ scans[1].impact_score = "Red" /\ scans[1].co2_estimate = 50
    /\ scans[2].impact_score = "Green" /\ scans[2].co2_estimate = 8
    /\ latest_result # None
    /\ latest_result.impact_score = "Yellow"
    /\ latest_result.impact_label = "Medium Impact"

\* a step of an analysis: POST /analyze, or the desktop Analyze button, its
\* worker thread and the callback the worker queued
AnalyzeStep ==
    \/ /\ response' # None
       /\ response'.handler = "analyze_product"
       /\ UNCHANGED <<now, desktopVars>>
       /\ \E request \in ScanRequests, outcome \in LookupOutcomes :
             analyze_product(request, outcome)
    \/ \E barcode_var \in BarcodeEntries, city_var \in CityChoices :
          desktop_analyze_product(barcode_var, city_var)
    \/ \E n \in DOMAIN workers, outcome \in DesktopOutcomes : worker(n, outcome)
    \/ \E exc_bound \in BOOLEAN : run_callback(exc_bound)

\* C19: no step of an analysis, successful or failed, changes the scans
\* table.
C19_AnalyzeDoesNotWrite == [][AnalyzeStep => scans' = scans]_vars

\* both analyses succeeded and nothing is stored
C19_Witness ==
    /\ scans = <<>>
    /\ response # None
    /\ response.handler = "analyze_product"
    /\ response.status = 200
    /\ latest_result # None
    /\ scan_status = "Analysis complete."

\* C20: when the callback queued by a worker thread whose lookup or
\* analysis raised is run, the status becomes "Analysis failed." and
\* latest_result stays as it was.
C20_ErrorCallbackRuns ==
    [][(/\ ui_queue # <<>>
        /\ Head(ui_queue).callback = "_on_analysis_error"
        /\ ui_queue' = Tail(ui_queue))
       => /\ scan_status' = "Analysis failed."
          /\ latest_result' = latest_result]_vars

(***************************************************************************)
(* Properties of the monthly reports (SpecReports).                        *)
(***************************************************************************)
\* the CSV tables exported last by the API and by the desktop application
ExportedTables ==
    (IF response # None /\ response.handler = "export_monthly_csv"
        /\ response.status = 200
     THEN {response.body} ELSE {})
    \cup (IF report_file # None THEN {report_file.rows} ELSE {})

Co2Text(tenths) ==
    CASE tenths = 50 -> "5.0" [] tenths = 25 -> "2.5" [] tenths = 8 -> "0.8"

\* C16: every export, of the API and of the desktop application, starts
\* with the header id, product_name, barcode, city, impact_score,
\* disposal_type, co2_estimate, timestamp, and each of its other rows holds
\* the values of one stored row in that order.
C16_ExportColumns ==
    \A table \in ExportedTables :
        /\ table[1] = <<"id", "product_name", "barcode", "city",
                        "impact_score", "disposal_type", "co2_estimate",
                        "timestamp">>
        /\ \A k \in 2..Len(table) :
              \E i \in DOMAIN scans :
                  table[k] = <<ToString(scans[i].id), scans[i].product_name,
                               scans[i].barcode, scans[i].city,
                               scans[i].impact_score, scans[i].disposal_type,
                               Co2Text(scans[i].co2_estimate),
                               scans[i].timestamp>>

\* the desktop exported December with one row, the API January with another
C16_Witness ==
    /\ report_file # None
    /\ Len(report_file.rows) = 2
    /\ report_file.rows[2][1] = "1"
    /\ response # None
    /\ response.handler = "export_monthly_csv"
    /\ response.status = 200
    /\ Len(response.body) = 2
    /\ response.body[2][1] = "2"

(***************************************************************************)
(* Properties of the advisory sentence (SpecSuggest).                      *)
(***************************************************************************)
Blank(text) == \A i \in 1..Len(text) : Ch(text, i) \in {" ", "\t", "\n", "\r", "\f"}

\* the name the sentence speaks of: the product name without the
\* surrounding whitespace, "this product" for a blank name
SpokenName == IF Blank(name_arg.v) THEN "this product" ELSE strip(name_arg.v)

\* C17: suggest_alternative returns a sentence for every tier and name; the
\* sentence is the template of the tier (Red, Yellow, Green: three different
\* templates) with the product name in it, and with "this product" when the
\* name is empty or only whitespace.
C17_TemplateByTier ==
    alternative # NotCalled =>
        /\ alternative.t = "str"
        /\ tier_arg.v = "Red" =>
              alternative.v = "Try a plant-based version of " \o SpokenName
                                \o " and choose minimal packaging."
        /\ tier_arg.v = "Yellow" =>
              alternative.v =
                  "Consider a less-processed or refill/bulk alternative to "
                    \o SpokenName \o "."
        /\ tier_arg.v = "Green" =>
              alternative.v = SpokenName
                  \o " is a lower-impact choice. Prioritize local sourcing when possible."

\* a name of a tab and a newline, for the High tier
C17_Witness ==
    /\ alternative # NotCalled
    /\ tier_arg.v = "Red"
    /\ name_arg.v = "\t\n"
    /\ alternative.v =
         "Try a plant-based version of this product and choose minimal packaging."

(***************************************************************************)
(* Properties of one analysis (SpecBuild).                                 *)
(***************************************************************************)
\* the calls made to fn in a sequence of calls
CallsTo(calls, fn) == {i \in DOMAIN calls : calls[i].fn = fn}

LookupFailed ==
    build_arg.outcome.t = "RequestException"

ProductMissing ==
    /\ build_arg.outcome.t = "payload"
    /\ build_arg.outcome.status # 1 \/ build_arg.outcome.product = None

\* C15: for a supported city, when the lookup times out or returns an HTTP
\* error the API answers 502, and when the payload has no found product it
\* answers 404; in both cases it has made exactly one lookup request and no
\* call to the classifier, the estimator or the disposal resolver.
C15_NoRetryNoClassification ==
    (/\ api_built # NotCalled
     /\ IsSupportedCity(build_arg.city)
     /\ LookupFailed \/ ProductMissing)
    => /\ api_built.result.t = "HTTPException"
       /\ LookupFailed => api_built.result.status_code = 502
       /\ ProductMissing => api_built.result.status_code = 404
       /\ api_built.calls =
            <<[fn |-> "requests.get", arg |-> build_arg.barcode]>>

\* a payload of status 1 without a product
C15_Witness ==
    /\ api_built # NotCalled
    /\ build_arg.city = "Chicago"
    /\ build_arg.outcome = Payload(1, None)
    /\ api_built.result.status_code = 404
    /\ Len(api_built.calls) = 1

(***************************************************************************)
(* Properties of analyses running side by side in the desktop application  *)
(* (SpecDesktop).                                                          *)
(***************************************************************************)
\* every analysis that was started has run its callback
AllCompleted == requested # <<>> /\ workers = <<>> /\ ui_queue = <<>>

\* C21: once all the analyses started in the desktop application have
\* completed, and each found its product, latest_result (the result Save
\* Scan persists) is the result of the analysis requested last, whatever
\* the order in which the worker threads finished.
C21_LatestIsLastRequested ==
    (/\ AllCompleted
     /\ \A i \in DOMAIN requested : requested[i].lookup = "found")
        => /\ latest_result # None
           /\ latest_result.barcode = requested[Len(requested)].barcode
           /\ latest_result.city = requested[Len(requested)].city

(***************************************************************************)
(* Properties of saving what was shown (SpecFrontend).                     *)
(***************************************************************************)
\* the four values of a result or of a row that the user is shown
ShownFields(r) ==
    <<r.product_name, r.impact_score, r.disposal_type, r.co2_estimate>>

\* the save of the web frontend was answered with the row it stored
FrontendSaved ==
    /\ response # None
    /\ response.handler = "save_scan"
    /\ response.status = 200

\* the row the desktop Save Scan stored, named by the status line
DesktopSavedRows ==
    {row \in Rows(scans) :
        scan_status = "Saved scan #" \o ToString(row.id) \o "."}

\* C22: the record persisted by a Save Scan action has the product name,
\* the tier, the disposal action and the CO2 estimate of the result that
\* was on display when the user pressed the button: latest_analysis in the
\* web frontend, latest_result in the desktop application.
C22_SavedIsDisplayed ==
    /\ FrontendSaved =>
          ShownFields(response.body.scan) = ShownFields(latest_analysis)
    /\ \A row \in DesktopSavedRows :
          ShownFields(row) = ShownFields(latest_result)

(***************************************************************************)
(* Properties of the barcodes the API works with (SpecPadded).             *)
(***************************************************************************)
\* 5 to 32 characters, none of them white space at either end
WellFormedBarcode(barcode) ==
    /\ Len(barcode) >= 5
    /\ Len(barcode) <= 32
    /\ ~IsSpace(Ch(barcode, 1))
    /\ ~IsSpace(Ch(barcode, Len(barcode)))

\* the barcode of the result in the answer to POST /analyze or POST /scan:
\* the one build_product_result was called with and looked up
LookedUp ==
    IF response = None \/ response.status # 200 THEN {}
    ELSE IF response.handler = "analyze_product" THEN {response.body.barcode}
    ELSE IF response.handler = "save_scan"
    THEN {response.body.result.barcode}
    ELSE {}

\* C23: every barcode the API looks up, and every barcode stored through
\* POST /scan, has 5 to 32 characters and no white space at its ends.
C23_BarcodesWellFormed ==
    /\ \A barcode \in LookedUp : WellFormedBarcode(barcode)
    /\ \A row \in Rows(scans) : WellFormedBarcode(row.barcode)

(***************************************************************************)
(* Properties of the tier of products named after meat (SpecBuild).        *)
(***************************************************************************)
\* the AnalysisResults built by the API and by the desktop worker
BuiltResults ==
    (IF api_built # NotCalled /\ api_built.result.t = "ProductResult"
     THEN {api_built.result} ELSE {})
        \cup (IF /\ desktop_built # NotCalled
                 /\ desktop_built.result.callback = "_on_analysis_success"
              THEN {desktop_built.result.arg} ELSE {})

NamesMeat(name) ==
    Contains(lower(name), "beef") \/ Contains(lower(name), "meat")

\* C24: every AnalysisResult whose product_name contains "beef" or "meat",
\* in any case, has the tier Red, also when the name shown was taken from
\* product_name_en.
C24_MeatNameIsRed ==
    \A result \in BuiltResults :
        NamesMeat(result.product_name) => result.impact_score = "Red"

(***************************************************************************)
(* Properties of saves running side by side (SpecConcurrent).              *)
(***************************************************************************)
Inserted(h) == handlers[h].pc \in {"read", "done"}

Finished(h) == handlers[h].pc \in {"done", "raised"}

\* C25: when several save requests run side by side, each insert returns
\* an id no other record has, the row each request reads back is the one
\* it inserted (its own barcode and city, and the values of its result),
\* and once all requests have finished the store holds one record for each
\* request that succeeded.
C25_ConcurrentSavesKeepRows ==
    /\ \A h1, h2 \in DOMAIN handlers :
          (h1 # h2 /\ Inserted(h1) /\ Inserted(h2))
              => handlers[h1].scan_id # handlers[h2].scan_id
    /\ \A i, j \in DOMAIN scans : i # j => scans[i].id # scans[j].id
    /\ \A h \in DOMAIN handlers :
          handlers[h].pc = "done"
              => /\ handlers[h].scan_row # None
                 /\ handlers[h].scan_row.id = handlers[h].scan_id
                 /\ handlers[h].scan_row.barcode
                        = strip(handlers[h].request.barcode)
                 /\ handlers[h].scan_row.city = handlers[h].request.city
                 /\ \A field \in RoundTripFields :
                        handlers[h].scan_row[field] = handlers[h].result[field]
    /\ (\A h \in DOMAIN handlers : Finished(h))
          => Len(scans)
                = Cardinality({h \in DOMAIN handlers : handlers[h].pc = "done"})

\* the handler that arrived first inserted second, and read its row back
\* while the other handler, for another city, had not yet read its own
C25_Witness ==
    /\ Len(handlers) >= 2
    /\ handlers[1].pc = "done"
    /\ handlers[2].pc = "read"
    /\ handlers[2].scan_id < handlers[1].scan_id
    /\ handlers[1].request.city # handlers[2].request.city

(***************************************************************************)
(* Properties of tiers outside Red, Yellow and Green (SpecSuggest).        *)
(***************************************************************************)
UnknownTier == tier_arg.v \notin {"Red", "Yellow", "Green"}

\* C26: for a tier that is none of Red, Yellow and Green the estimator and
\* the advisor fall back to the Medium tier alike: estimate_co2 returns 2.5
\* and suggest_alternative returns the Medium sentence (a less-processed or
\* refill/bulk alternative).
C26_UnknownTierIsMedium ==
    UnknownTier =>
        /\ co2 # NotCalled => co2.tenths = 25
        /\ alternative # NotCalled =>
              alternative.v =
                  "Consider a less-processed or refill/bulk alternative to "
                    \o SpokenName \o "."

(***************************************************************************)
(* Properties of the history and of the streak (SpecReports).              *)
(***************************************************************************)
\* the place of a row in the order of saving, and of its timestamp in time
SavedAt(row) == CHOOSE i \in DOMAIN scans : scans[i] = row

TimeOf(row) == CHOOSE k \in DOMAIN Timeline : Timeline[k] = row.timestamp

Min(a, b) == IF a < b THEN a ELSE b

\* items is what C27 says of a history of at most limit records
RecentFirst(items, limit) ==
    /\ Len(items) = Min(limit, Len(scans))
    /\ \A i \in DOMAIN items : items[i] \in Rows(scans)
    /\ \A i, j \in DOMAIN items :
          i < j => /\ TimeOf(items[i]) >= TimeOf(items[j])
                   /\ TimeOf(items[i]) = TimeOf(items[j])
                         => items[i].id > items[j].id
                   /\ SavedAt(items[i]) > SavedAt(items[j])
    /\ \A row \in Rows(scans) :
          (\A i \in DOMAIN items : items[i] # row)
              => \A i \in DOMAIN items : SavedAt(row) < SavedAt(items[i])

\* C27: get_scan_history(limit) returns at most limit records, the limit
\* most recent ones, newest first by timestamp and, for equal timestamps,
\* by descending id; a record saved later never comes after a record saved
\* earlier.
C27_HistoryNewestFirst ==
    [][(/\ response' # None
        /\ response'.handler = "history"
        /\ response'.status = 200)
          => \A limit \in HistoryLimits :
                history(limit) => RecentFirst(response'.body.items, limit)]_vars

\* a history of one record out of two saved within the same second
C27_Witness ==
    /\ response # None
    /\ response.handler = "history"
    /\ response.status = 200
    /\ Len(scans) = 2
    /\ scans[1].timestamp = scans[2].timestamp
    /\ response.body.items = <<scans[2]>>

\* a scan was saved within the current second
SavedJustNow == scans # <<>> /\ scans[Len(scans)].timestamp = CURRENT_TIMESTAMP

\* C28: get_current_streak is 0 for an empty store, at least 1 right after
\* a scan was saved, and never more than the number of days with a scan.
C28_StreakCountsToday ==
    (response # None /\ response.handler = "streak")
        => /\ scans = <<>> => response.body.days = 0
           /\ SavedJustNow => response.body.days >= 1
           /\ response.body.days
                 <= Cardinality({date(row.timestamp) : row \in Rows(scans)})

(***************************************************************************)
(* Properties of the scans of a month (SpecReports).                       *)
(***************************************************************************)
\* the ids, as the export prints them, of the scans saved in a month
IdsOfMonth(year, month) ==
    {ToString(row.id) :
        row \in {r \in Rows(scans) : /\ r.timestamp.year = year
                                     /\ r.timestamp.month = month}}

\* table, without its header row, lists the scans of the month, each once,
\* in ascending order of timestamp
ListsMonth(table, year, month) ==
    /\ {table[i][1] : i \in 2..Len(table)} = IdsOfMonth(year, month)
    /\ Len(table) - 1 = Cardinality(IdsOfMonth(year, month))
    /\ \A i, j \in 2..Len(table) :
          i < j =>
              (CHOOSE k \in DOMAIN Timeline : Timeline[k] = table[i][8])
                <= (CHOOSE k \in DOMAIN Timeline : Timeline[k] = table[j][8])

\* C29: get_monthly_scans(year, month) returns the records whose timestamp
\* is on or after the first day of the month and before the first day of
\* the next month (January of the next year after December), all of them
\* and no others, in ascending order of timestamp.
C29_MonthlyScansExact ==
    [][(/\ response' # None
        /\ response'.handler = "export_monthly_csv"
        /\ response'.status = 200)
          => \A ym \in ExportMonths :
                export_monthly_csv(ym[1], ym[2])
                    => ListsMonth(response'.body, ym[1], ym[2])]_vars

\* the export of December 2024 from a store with a scan of 31 December 2024
\* and a scan of 1 January 2025
C29_Witness ==
    /\ response # None
    /\ response.handler = "export_monthly_csv"
    /\ response.status = 200
    /\ Len(scans) = 2
    /\ scans[1].timestamp.month = 12
    /\ scans[2].timestamp.month = 1
    /\ Len(response.body) = 2
    /\ response.body[2][1] = "1"

(***************************************************************************)
(* Properties of the webcam scan (SpecCamera).                             *)
(***************************************************************************)
CameraLooping == camera # NotCalled /\ camera.pc = "loop"

CameraReturned == camera # NotCalled /\ camera.pc = "returned"

CameraEnded == camera # NotCalled /\ camera.pc \in {"returned", "raised"}

NoFramesError ==
    Str("Camera opened but no frames captured. Check camera "
        \o "permission for the terminal app.")

\* the result has exactly one of barcode and error, and a barcode is not
\* empty
OneOfBarcodeAndError(result) ==
    /\ (result.barcode = None) # (result.error = None)
    /\ result.barcode # None => result.barcode.v # ""

\* the capture is released when the call ended, by a return or by an
\* exception, and a returned result has exactly one of barcode and error
ReleasedAndOneResult ==
    /\ CameraEnded => camera.released
    /\ CameraReturned => OneOfBarcodeAndError(camera.result)

\* C30 as stated, for a call that ended: the capture is released on every
\* path, the result has exactly one of barcode (non-empty) and error, and
\* when no frame was read the error is the no-frames-captured message and
\* frames_seen is 0.
C30_NoFrameReadIsNoFramesError ==
    /\ ReleasedAndOneResult
    /\ (CameraReturned /\ camera.frames_seen = 0)
          => /\ camera.result.error = NoFramesError
             /\ camera.result.frames_seen = 0

\* C30, amended: every call that reached its loop ends, the capture is
\* released on every path (open failure, barcode found, timeout, exception
\* from the frame callback), a returned result has exactly one of barcode
\* (non-empty) and error, and when the camera opened and no frame was read
\* the error is the no-frames-captured message and frames_seen is 0; when
\* the camera did not open the error names the camera index instead, also
\* with frames_seen 0.
C30_ScanEndsReleased ==
    /\ [](/\ ReleasedAndOneResult
          /\ (CameraReturned /\ camera.frames_seen = 0)
                => /\ camera.result.frames_seen = 0
                   /\ camera.isOpened
                        => camera.result.error = NoFramesError
                   /\ ~camera.isOpened
                        => camera.result.error
                             \in {Str("Unable to open camera index 0."),
                                  Str("Unable to open camera index 1.")})
    /\ CameraLooping ~> CameraEnded

\* the camera opened, delivered no frame until the timeout of one second had
\* passed, and the call returned
C30_Witness ==
    /\ CameraReturned
    /\ camera.isOpened
    /\ camera.released
    /\ camera.frames_seen = 0
    /\ camera.timeout_seconds = 1
    /\ camera.elapsed = 2
    /\ camera.result.barcode = None

====
